---- MODULE Spec2Model ----
(***************************************************************************)
(* The durable AI enrichment pipeline of EmojiLunaService (src/src/        *)
(* service.ts, the class that starts at line 1331): the ai_tasks queue,    *)
(* the polling worker loop, tryAtomicClaim, processAiTask, the startup     *)
(* reset of stuck rows, the operator calls retryFailedTasks,               *)
(* reanalyzeBatch and setAiPaused, and the ingest path addEmoji that       *)
(* enqueues work.                                                          *)
(*                                                                         *)
(* Granularity: one step per awaited database / filesystem / model call.   *)
(* The synchronous code between two awaits runs in the step of the call    *)
(* that follows it; the synchronous tail after the last await of a         *)
(* function runs in the step of that last call.  Sleeps of the loop change *)
(* no state and are stuttering steps; the clock advances with Tick.        *)
(***************************************************************************)
EXTENDS Integers, Sequences, FiniteSets, TLC

\* ---------------------------------------------------------------- bounds
MaxTasks == 2
MaxEmojis == 2
MaxTime == 1
MaxAttemptsCfg == 2
MaxConcurrencyCfg == 1
MaxOverride == 2
MaxCopies == 2
MaxSharedEmojis == 1
MaxCrashes == 1
MaxCalls == 2
MaxTags == 2
MaxFiles == 4
MaxUploadConcurrency == 3

\* ------------------------------------------------------------- constants
Procs == {1, 2}
TaskIds == 1..MaxTasks
EmojiIds == 1..MaxEmojis
Buffers == 1..MaxEmojis
Calls == 1..MaxCalls

\* storage paths: the file of image id e is path e; the file a caller hands
\* to call slot k of addEmojiFromPath is SourcePath(k)
SourcePath(k) == MaxEmojis + k
Paths == 1..(MaxEmojis + MaxCalls)

\* category names: DefaultCategory stands for the default category literal of the
\* code, a two-character Chinese word; funny is configured like DefaultCategory, cute
\* is not
DefaultCategory == "other"
CategoryNames == {DefaultCategory, "funny", "cute"}
ConfigCategories == {DefaultCategory, "funny"}

PENDING == "pending"
PROCESSING == "processing"
SUCCEEDED == "succeeded"
FAILED == "failed"
AI_TASK_STATUS == {PENDING, PROCESSING, SUCCEEDED, FAILED}

NoRow == [live |-> FALSE, image_hash |-> 0, ai |-> FALSE, category |-> ""]
NoEmoji == [present |-> FALSE, ai |-> FALSE, category |-> ""]
NoCategory == [present |-> FALSE, emojiCount |-> 0, copies |-> 0]
NoCategoryRow == [live |-> FALSE, emoji_count |-> 0, copies |-> 0]
Idle == [pc |-> "idle", attempts |-> 0, old |-> "", new |-> "", delay |-> 0,
         result |-> FALSE, bodies |-> 0]
NoCall == [pc |-> "idle", kind |-> "", id |-> 0, hash |-> 0, aiAnalysis |-> FALSE,
           ai |-> FALSE, category |-> "", failed |-> FALSE, old |-> ""]
NoDelete == [pc |-> "idle", id |-> 0, category |-> ""]
NoRean == [pc |-> "idle", id |-> 0, open |-> FALSE]
NoRetry == [pc |-> "idle", list |-> <<>>, failedTasks |-> <<>>, pendingBefore |-> 0]

VARIABLES
    now,                \* Date.now()
    config,             \* this.config (the fields the pipeline reads)
    tasks,              \* table emojiluna_ai_tasks, row id = index
    aiResults,          \* table emojiluna_ai_results: the hashes that have a row
    emojiRows,          \* table emojiluna_emojis
    idCounter,          \* number of image ids handed out by randomUUID()
    emojiStorage,       \* _emojiStorage of each process
    files,              \* the paths that hold a file
    categories,         \* _categories of each process, by name
    categoryRows,       \* table emojiluna_categories, by name
    lpc,                \* position of each process in ready / startAiTaskProcessor
    stuck,              \* startAiTaskProcessor: the rows still to reset
    fetched,            \* startAiTaskProcessor: the polled rows still to visit
    aiTaskLoopRunning,  \* _aiTaskLoopRunning
    aiPaused,           \* _aiPaused
    runtimeConfig,      \* _runtimeConfig, and the fields the last call gave
    isDisposed,         \* _isDisposed
    localActiveCount,   \* _localActiveCount
    processingSet,      \* _processingSet
    run,                \* the processAiTask invocations in flight
    retryList,          \* retryFailedTasks: pc, failedTasks, the rows still to set; history: the PENDING count at the read
    rean,               \* reanalyzeBatch: pc and the id being handled; history: the id had a PENDING or PROCESSING row at the call
    add,                \* addEmoji / addEmojiFromPath: pc and locals of each call; history: an operation of the call has failed
    del,                \* deleteEmoji: pc and locals
    claimed,            \* history: per task, the processes whose claim returned true
    claimCount,         \* history: successful claims per task since it was enqueued
    visionCalls,        \* history: per process, the tasks its worker called the vision client for
    polled,             \* history: per process, the loop has issued a poll query
    pausedEnq,          \* history: per process, tasks enqueued while it was paused
    crashes,            \* history: number of process crashes so far
    wasStuck,           \* history: per process, the rows its startup query returned
    atDispose,          \* history: per process, the tasks in flight when it was disposed
    merge,              \* the inputs of one merge of an AI result and what each site made of them
    upload              \* the browser upload worker: the message it got, its locals, the requests in flight; history: requests per file, messages posted

store == <<tasks, aiResults, emojiRows, idCounter>>
loopv == <<lpc, stuck, fetched, aiTaskLoopRunning>>
flags == <<aiPaused, runtimeConfig, isDisposed>>
workv == <<localActiveCount, processingSet, run>>
opsv == <<retryList, rean, add, del>>
catv == <<files, categories, categoryRows>>
hist == <<claimed, claimCount, visionCalls, polled, pausedEnq, crashes, wasStuck,
          atDispose>>
vars == <<now, config, store, emojiStorage, catv, loopv, flags, workv, opsv, hist,
          merge, upload>>

\* ----------------------------------------------------------- pure helpers
RECURSIVE Pow2(_)
Pow2(n) == IF n <= 0 THEN 1 ELSE 2 * Pow2(n - 1)

\* sha256 of a buffer: injective on the modelled buffers, not the identity
calculateFileHash(buffer) == 100 + buffer

Max0(n) == IF n < 0 THEN 0 ELSE n

SeqOf(S, n) == UNION {[1..k -> S] : k \in 0..n}

IsInjective(s) == \A i, j \in DOMAIN s : s[i] = s[j] => i = j

Range(s) == {s[i] : i \in DOMAIN s}

Min(a, b) == IF a < b THEN a ELSE b

Rows(status) == {t \in DOMAIN tasks : tasks[t].status = status}

\* _runtimeConfig of a new service object: 0 and -1 stand for "use config"
NoRuntimeConfig == [concurrency |-> 0, batchDelay |-> -1, given |-> {}]

\* a loop that ignores the runtime override of the concurrency
ConcurrencyConfigOnly(w) == config.aiConcurrency

\* the effective concurrency of the worker loop
Concurrency(w) ==
    IF runtimeConfig[w].concurrency > 0
    THEN runtimeConfig[w].concurrency
    ELSE config.aiConcurrency

\* the delay the loop sleeps after a dispatch
BatchDelay(w) ==
    IF runtimeConfig[w].batchDelay >= 0
    THEN runtimeConfig[w].batchDelay
    ELSE config.aiBatchDelay

\* ------------------------------------------------------------------ Init
Configs ==
    [persistAiTasks : BOOLEAN,
     aiMaxAttempts : 1..MaxAttemptsCfg,
     aiConcurrency : 1..MaxConcurrencyCfg,
     aiBackoffBase : {1},
     aiBatchDelay : {1}]

\* what an earlier run of the plugin can have left in the task table when
\* the service is constructed: nothing, or the task of image 1 that the run
\* had claimed when it stopped, after a of its attempts had failed (the last
\* of them one backoff before the start).  failed_at is the time of the last
\* write of the catch block of processAiTask.
StoredTasks(cfg) ==
    {<<>>} \cup
    {<<[emoji_id |-> 1, image_hash |-> calculateFileHash(1),
        status |-> PROCESSING, attempts |-> a, next_retry_at |-> 0,
        last_error |-> IF a = 0 THEN "" ELSE "err", created_at |-> 0,
        failed_at |-> IF a = 0 THEN 0 ELSE 0 - cfg.aiBackoffBase * Pow2(a - 1)]>> :
       a \in 0..(cfg.aiMaxAttempts - 1)}

InitService ==
    /\ now = 0
    /\ config \in Configs
    /\ tasks \in StoredTasks(config)
    /\ aiResults = {}
    /\ emojiRows = [e \in EmojiIds |->
                       IF \E t \in DOMAIN tasks : tasks[t].emoji_id = e
                       THEN [live |-> TRUE, image_hash |-> calculateFileHash(e),
                             ai |-> FALSE, category |-> DefaultCategory]
                       ELSE NoRow]
    /\ files = {e \in EmojiIds : emojiRows[e].live}
    /\ categories = [w \in Procs |-> [c \in CategoryNames |-> NoCategory]]
    /\ categoryRows =
          [c \in CategoryNames |->
              IF tasks # <<>> /\ c \in ConfigCategories
              THEN [live |-> TRUE,
                    emoji_count |-> Cardinality({e \in EmojiIds :
                        emojiRows[e].live /\ emojiRows[e].category = c}),
                    copies |-> 1]
              ELSE NoCategoryRow]
    /\ idCounter = Len(tasks)
    /\ emojiStorage = [w \in Procs |-> [e \in EmojiIds |-> NoEmoji]]
    /\ lpc = [w \in Procs |-> "off"]
    /\ stuck = [w \in Procs |-> <<>>]
    /\ fetched = [w \in Procs |-> <<>>]
    /\ aiTaskLoopRunning = [w \in Procs |-> FALSE]
    /\ aiPaused = [w \in Procs |-> FALSE]
    /\ runtimeConfig = [w \in Procs |-> NoRuntimeConfig]
    /\ isDisposed = [w \in Procs |-> FALSE]
    /\ localActiveCount = [w \in Procs |-> 0]
    /\ processingSet = [w \in Procs |-> {}]
    /\ run = [w \in Procs |-> [t \in TaskIds |-> Idle]]
    /\ retryList = [w \in Procs |-> NoRetry]
    /\ rean = [w \in Procs |-> NoRean]
    /\ add = [w \in Procs |-> [k \in Calls |-> NoCall]]
    /\ del = [w \in Procs |-> NoDelete]
    /\ claimed = [t \in TaskIds |-> {}]
    /\ claimCount = [t \in TaskIds |->
                        IF t \in DOMAIN tasks THEN tasks[t].attempts + 1 ELSE 0]
    /\ visionCalls = [w \in Procs |-> {}]
    /\ polled = [w \in Procs |-> FALSE]
    /\ pausedEnq = [w \in Procs |-> {}]
    /\ crashes = 0
    /\ wasStuck = [w \in Procs |-> {}]
    /\ atDispose = [w \in Procs |-> {}]

\* no merge is being followed
NoMerge == [options |-> [name |-> "", category |-> "", tags |-> <<>>],
            result |-> [name |-> "", category |-> "", hasTags |-> TRUE, tags |-> <<>>],
            ingest |-> <<>>,
            worker |-> <<>>,
            again |-> <<>>,
            cache |-> {}]

\* no message has been posted to the upload worker
NoUpload == [length |-> 0, concurrency |-> 1, received |-> FALSE,
             index |-> 0, active |-> 0, completed |-> 0, errors |-> 0,
             inFlight |-> {},
             requests |-> [i \in 0..(MaxFiles - 1) |-> 0],
             progress |-> 0, done |-> 0, reported |-> 0]

Init == InitService /\ merge = NoMerge /\ upload = NoUpload

\* the clock
Tick ==
    /\ now < MaxTime
    /\ now' = now + 1
    /\ UNCHANGED <<config, store, emojiStorage, catv, loopv, flags, workv, opsv,
                   hist, merge, upload>>

\* ------------------------------------------------- startAiTaskProcessor
\* loadEmojis: _emojiStorage is rebuilt from the rows of emojiluna_emojis
loadEmojis ==
    [e \in EmojiIds |->
        IF emojiRows[e].live
        THEN [present |-> TRUE, ai |-> emojiRows[e].ai,
              category |-> emojiRows[e].category]
        ELSE NoEmoji]

\* loadCategories: _categories is rebuilt from the rows of
\* emojiluna_categories, then every configured name that is missing is added
\* with addCategory (count 0)
loadCategories ==
    [c \in CategoryNames |->
        IF categoryRows[c].live
        THEN [present |-> TRUE, emojiCount |-> categoryRows[c].emoji_count,
              copies |-> categoryRows[c].copies]
        ELSE IF c \in ConfigCategories
        THEN [present |-> TRUE, emojiCount |-> 0, copies |-> 1]
        ELSE NoCategory]

\* ctx.on('ready'): initializeStorage (loadEmojis, loadCategories), before
\* the processor starts
Ready(w) ==
    /\ lpc[w] = "off"
    /\ emojiStorage' = [emojiStorage EXCEPT ![w] = loadEmojis]
    /\ categories' = [categories EXCEPT ![w] = loadCategories]
    /\ categoryRows' =
          [c \in CategoryNames |->
              IF ~categoryRows[c].live /\ c \in ConfigCategories
              THEN [live |-> TRUE, emoji_count |-> 0, copies |-> 1]
              ELSE categoryRows[c]]
    /\ lpc' = [lpc EXCEPT ![w] = "ready"]
    /\ UNCHANGED <<now, config, store, files, stuck, fetched, aiTaskLoopRunning,
                   flags, workv, opsv, hist, merge, upload>>

RECURSIVE SetToSeq(_)
SetToSeq(S) ==
    IF S = {} THEN <<>>
    ELSE LET m == CHOOSE x \in S : \A y \in S : x <= y
         IN <<m>> \o SetToSeq(S \ {m})

\* the rows the startup query returns: every row whose status is PROCESSING
StuckRows == SetToSeq(Rows(PROCESSING))

\* a reset that writes the row back without changing its status
ResetRowKeep(row) == row

\* the startup reset of one row: status only
ResetRow(row) == [row EXCEPT !.status = PENDING]

\* startAiTaskProcessor up to the query for stuck rows
StartAiTaskProcessor(w) ==
    /\ lpc[w] = "ready"
    /\ ~aiTaskLoopRunning[w]
    /\ aiTaskLoopRunning' = [aiTaskLoopRunning EXCEPT ![w] = TRUE]
    /\ stuck' = [stuck EXCEPT ![w] = StuckRows]
    /\ lpc' = [lpc EXCEPT ![w] = IF StuckRows = <<>> THEN "loop" ELSE "reset"]
    /\ wasStuck' = [wasStuck EXCEPT ![w] = Range(StuckRows)]
    /\ UNCHANGED <<now, config, store, emojiStorage, fetched, flags, workv,
                   opsv, claimed, claimCount, visionCalls, polled, pausedEnq,
                   crashes, atDispose, catv, merge, upload>>

\* one iteration of the reset loop: database.set(id, {status: PENDING})
ResetStuck(w) ==
    /\ lpc[w] = "reset"
    /\ LET t == Head(stuck[w])
       IN /\ tasks' = [tasks EXCEPT ![t] = ResetRow(tasks[t])]
          /\ claimed' = [claimed EXCEPT ![t] = {}]
    /\ stuck' = [stuck EXCEPT ![w] = Tail(stuck[w])]
    /\ lpc' = [lpc EXCEPT ![w] = IF Len(stuck[w]) = 1 THEN "loop" ELSE "reset"]
    /\ UNCHANGED <<now, config, aiResults, emojiRows, idCounter, emojiStorage,
                   fetched, aiTaskLoopRunning, flags, workv, opsv,
                   claimCount, visionCalls, polled, pausedEnq, crashes, wasStuck,
                   atDispose, catv, merge, upload>>

\* a loop that never sees the pause flag
IsPausedNever(w) == FALSE

\* the loop's reads of this._aiPaused
IsPaused(w) == aiPaused[w]

\* the head of the while loop: persistence on and not paused
LoopGate(w) == config.persistAiTasks /\ ~IsPaused(w)

\* a loop that never sees the dispose flag
IsDisposedNever(w) == FALSE

\* the loop's reads of this._isDisposed
IsDisposed(w) == isDisposed[w]

\* a loop without the capacity check
HasCapacityAlways(active, concurrency) == TRUE

\* the capacity check made at the loop head and again before each claim
HasCapacity(active, concurrency) == active < concurrency

\* a poll that returns PENDING rows whether they are due or not
EligibleAnyTime == {t \in DOMAIN tasks : tasks[t].status = PENDING}

\* rows the poll may return: PENDING and due
Eligible == {t \in DOMAIN tasks :
                tasks[t].status = PENDING /\ tasks[t].next_retry_at <= now}

\* a poll whose results come in any order
PollResultsUnsorted(limit) ==
    {s \in SeqOf(Eligible, Min(limit, Cardinality(Eligible))) :
        /\ Len(s) = Min(limit, Cardinality(Eligible))
        /\ IsInjective(s)}

\* results of the poll: eligible rows by created_at ascending (ties in any
\* order), cut at the limit
PollResults(limit) ==
    {s \in SeqOf(Eligible, Min(limit, Cardinality(Eligible))) :
        /\ Len(s) = Min(limit, Cardinality(Eligible))
        /\ IsInjective(s)
        /\ \A i \in DOMAIN s : \A t \in Eligible \ Range(s) :
               tasks[s[i]].created_at <= tasks[t].created_at
        /\ \A i, j \in DOMAIN s :
               i < j => tasks[s[i]].created_at <= tasks[s[j]].created_at}

\* steps 1 to 4 of the loop body: gate, capacity, poll; each fetched entry
\* carries the loop's local `concurrency`, computed once per iteration
LoopPoll(w) ==
    /\ lpc[w] = "loop"
    /\ ~IsDisposed(w)
    /\ LoopGate(w)
    /\ HasCapacity(localActiveCount[w], Concurrency(w))
    /\ \E s \in PollResults((Concurrency(w) - localActiveCount[w]) * 2) :
          /\ fetched' = [fetched EXCEPT ![w] =
                 [i \in DOMAIN s |->
                     [id |-> s[i], attempts |-> tasks[s[i]].attempts,
                      concurrency |-> Concurrency(w)]]]
          /\ lpc' = [lpc EXCEPT ![w] = IF s = <<>> THEN "loop" ELSE "claim"]
    /\ polled' = [polled EXCEPT ![w] = TRUE]
    /\ UNCHANGED <<now, config, store, emojiStorage, stuck, aiTaskLoopRunning,
                   flags, workv, opsv, claimed, claimCount, visionCalls, pausedEnq, crashes, wasStuck,
                   atDispose, catv, merge, upload>>

\* the for loop ends: list exhausted, paused, disposed, or no capacity left
LoopBreak(w) ==
    /\ lpc[w] = "claim"
    /\ \/ fetched[w] = <<>>
       \/ IsPaused(w)
       \/ IsDisposed(w)
       \/ /\ fetched[w] # <<>>
          /\ ~HasCapacity(localActiveCount[w], Head(fetched[w]).concurrency)
    /\ fetched' = [fetched EXCEPT ![w] = <<>>]
    /\ lpc' = [lpc EXCEPT ![w] = "loop"]
    /\ UNCHANGED <<now, config, store, emojiStorage, stuck, aiTaskLoopRunning,
                   flags, workv, opsv, hist, catv, merge, upload>>

\* while (!this._isDisposed) is false: the loop function returns
LoopExit(w) ==
    /\ lpc[w] = "loop"
    /\ IsDisposed(w)
    /\ lpc' = [lpc EXCEPT ![w] = "stopped"]
    /\ UNCHANGED <<now, config, store, emojiStorage, stuck, fetched,
                   aiTaskLoopRunning, flags, workv, opsv, hist, catv, merge, upload>>

\* the 'dispose' listener registered by initializeStorage: the flag, and the
\* in-memory catalog and the model reference are dropped
Dispose(w) ==
    /\ lpc[w] # "off"
    /\ ~isDisposed[w]
    /\ isDisposed' = [isDisposed EXCEPT ![w] = TRUE]
    /\ emojiStorage' = [emojiStorage EXCEPT ![w] = [e \in EmojiIds |-> NoEmoji]]
    /\ categories' = [categories EXCEPT ![w] = [c \in CategoryNames |-> NoCategory]]
    /\ atDispose' = [atDispose EXCEPT ![w] =
                        {t \in TaskIds : run[w][t].pc # "idle"}]
    /\ UNCHANGED <<now, config, store, files, categoryRows, loopv, aiPaused,
                   runtimeConfig, workv,
                   opsv, claimed, claimCount, visionCalls, polled, pausedEnq,
                   crashes, wasStuck, merge, upload>>

\* a processAiTask without the guard on _processingSet
AlreadyProcessingNever(w, t) == FALSE

\* processAiTask: this._processingSet.has(task.id), checked before the body
\* starts; run[w][t].bodies counts the bodies of task t running in process w
AlreadyProcessing(w, t) == t \in processingSet[w]

\* tryAtomicClaim, fallback path: the row is claimable when read as PENDING
ClaimCheck(row) == row.status = PENDING

\* tryAtomicClaim: database.get(id); a row that is not PENDING returns false
ClaimRead(w) ==
    /\ lpc[w] = "claim"
    /\ fetched[w] # <<>>
    /\ ~IsPaused(w)
    /\ ~IsDisposed(w)
    /\ HasCapacity(localActiveCount[w], Head(fetched[w]).concurrency)
    /\ IF ClaimCheck(tasks[Head(fetched[w]).id])
       THEN /\ lpc' = [lpc EXCEPT ![w] = "claimSet"]
            /\ UNCHANGED fetched
       ELSE /\ fetched' = [fetched EXCEPT ![w] = Tail(fetched[w])]
            /\ UNCHANGED lpc
    /\ UNCHANGED <<now, config, store, emojiStorage, stuck, aiTaskLoopRunning,
                   flags, workv, opsv, hist, catv, merge, upload>>

\* tryAtomicClaim: database.set(id, {status: PROCESSING}) and return true;
\* then _localActiveCount++ and processAiTask up to its first await
ClaimSet(w) ==
    /\ lpc[w] = "claimSet"
    /\ LET f == Head(fetched[w])
           t == f.id
       IN /\ tasks' = [tasks EXCEPT ![t].status = PROCESSING]
          /\ localActiveCount' = [localActiveCount EXCEPT ![w] = @ + 1]
          /\ IF AlreadyProcessing(w, t)
             THEN UNCHANGED <<processingSet, run>>
             ELSE /\ processingSet' = [processingSet EXCEPT ![w] = @ \cup {t}]
                  /\ run' = [run EXCEPT ![w][t] =
                                [Idle EXCEPT !.pc = "mark",
                                             !.attempts = f.attempts,
                                             !.delay = BatchDelay(w),
                                             !.bodies = run[w][t].bodies + 1]]
          /\ claimed' = [claimed EXCEPT ![t] = @ \cup {w}]
          /\ claimCount' = [claimCount EXCEPT ![t] = Min(@ + 1, MaxAttemptsCfg + 1)]
    /\ fetched' = [fetched EXCEPT ![w] = Tail(fetched[w])]
    /\ lpc' = [lpc EXCEPT ![w] = "claim"]
    /\ UNCHANGED <<now, config, aiResults, emojiRows, idCounter, emojiStorage,
                   stuck, aiTaskLoopRunning, flags, opsv,
                   visionCalls, polled, pausedEnq, crashes, wasStuck,
                   atDispose, catv, merge, upload>>

\* ---------------------------------------------------------- processAiTask
\* a finally block that does not give the slot back
FinishLeak(w, t) ==
    /\ processingSet' = [processingSet EXCEPT ![w] = @ \ {t}]
    /\ UNCHANGED localActiveCount
    /\ run' = [run EXCEPT ![w][t] = Idle]

\* the finally block: drop the local marker, decrement the active count
Finish(w, t) ==
    /\ processingSet' = [processingSet EXCEPT ![w] = @ \ {t}]
    /\ localActiveCount' = [localActiveCount EXCEPT ![w] = Max0(@ - 1)]
    /\ run' = [run EXCEPT ![w][t] = Idle]

\* a catch block whose backoff exponent is the new attempts count
CompleteFailExponent(row, attempts, t) ==
    LET a == attempts + 1
    IN [row EXCEPT
          !.status = IF a >= config.aiMaxAttempts THEN FAILED ELSE PENDING,
          !.attempts = a,
          !.last_error = "err",
          !.failed_at = t,
          !.next_retry_at = t + config.aiBackoffBase * Pow2(a)]

\* a catch block that fails the task only after aiMaxAttempts is exceeded
CompleteFailLate(row, attempts, t) ==
    LET a == attempts + 1
    IN [row EXCEPT
          !.status = IF a > config.aiMaxAttempts THEN FAILED ELSE PENDING,
          !.attempts = a,
          !.last_error = "err",
          !.failed_at = t,
          !.next_retry_at = t + config.aiBackoffBase * Pow2(a - 1)]

\* the catch block: the row written after a failure whose snapshot carried
\* `attempts`, at time t
CompleteFail(row, attempts, t) ==
    LET a == attempts + 1
    IN [row EXCEPT
          !.status = IF a >= config.aiMaxAttempts THEN FAILED ELSE PENDING,
          !.attempts = a,
          !.last_error = "err",
          !.failed_at = t,
          !.next_retry_at = t + config.aiBackoffBase * Pow2(a - 1)]

\* the best-effort mark: database.set(id, {status: PROCESSING})
PMark(w, t) ==
    /\ run[w][t].pc = "mark"
    /\ tasks' = [tasks EXCEPT ![t].status = PROCESSING]
    /\ run' = [run EXCEPT ![w][t].pc = "read"]
    /\ UNCHANGED <<now, config, aiResults, emojiRows, idCounter, emojiStorage,
                   loopv, flags, localActiveCount, processingSet, opsv, hist,
                   catv, merge, upload>>

\* fs.readFile(task.image_path); when the file is gone the call throws and
\* the catch block runs
PRead(w, t) ==
    /\ run[w][t].pc = "read"
    /\ IF tasks[t].emoji_id \in files
       THEN /\ run' = [run EXCEPT ![w][t].pc = "analyze"]
            /\ UNCHANGED <<tasks, localActiveCount, processingSet, claimed>>
       ELSE /\ tasks' = [tasks EXCEPT ![t] =
                            CompleteFail(tasks[t], run[w][t].attempts, now)]
            /\ claimed' = [claimed EXCEPT ![t] =
                              IF tasks'[t].status = PENDING THEN {} ELSE @]
            /\ Finish(w, t)
    /\ UNCHANGED <<now, config, aiResults, emojiRows, idCounter, emojiStorage,
                   catv, loopv, flags, opsv, claimCount, visionCalls, polled,
                   pausedEnq, crashes, wasStuck, atDispose, merge, upload>>

\* a processAiTask that goes on with whatever analyzeEmoji returned
IsNullNever(result) == FALSE

\* if (!result) throw new Error('AI Analysis returned null')
IsNull(result) == ~result

\* analyzeEmoji returns a result (TRUE), or null (FALSE: no result, or the
\* client threw) and the catch block runs; without a model reference
\* (dropped by dispose) it returns null at once
PAnalyze(w, t) ==
    /\ run[w][t].pc = "analyze"
    /\ visionCalls' = [visionCalls EXCEPT ![w] = @ \cup {t}]
    /\ \E result \in BOOLEAN :
          /\ isDisposed[w] => ~result
          /\ IF IsNull(result)
             THEN /\ tasks' = [tasks EXCEPT ![t] =
                                  CompleteFail(tasks[t], run[w][t].attempts, now)]
                  /\ claimed' = [claimed EXCEPT ![t] =
                                    IF tasks'[t].status = PENDING THEN {} ELSE @]
                  /\ Finish(w, t)
             ELSE /\ run' = [run EXCEPT ![w][t].pc = "update",
                                        ![w][t].result = result]
                  /\ UNCHANGED <<tasks, localActiveCount, processingSet, claimed>>
    /\ UNCHANGED <<now, config, aiResults, emojiRows, idCounter, emojiStorage,
                   loopv, flags, opsv, claimCount, polled, pausedEnq, crashes, wasStuck,
                   atDispose, catv, merge, upload>>

\* a success path that does not write the cache row
CacheUpsertSkip(results, hash) == results

\* the upsert of the result cache
CacheUpsert(results, hash) == results \cup {hash}

\* the category of the analysis result for an image: the vision client
\* names no category for the image with hash calculateFileHash(1) and names
\* "funny" for every other image
ResultCategory(hash) == IF hash = calculateFileHash(1) THEN "" ELSE "funny"

\* a || b on strings
Or(a, b) == IF a # "" THEN a ELSE b

\* the number updateCategoryEmojiCount computes: the entries of
\* _emojiStorage with this category
CountOf(w, name) ==
    Cardinality({e \in EmojiIds :
        emojiStorage[w][e].present /\ emojiStorage[w][e].category = name})

\* updateCategoryEmojiCount(name): when _categories has the name, its
\* emojiCount and the emoji_count of its row become the computed number
updateCategoryEmojiCount(w, name) ==
    IF name \in CategoryNames /\ categories[w][name].present
    THEN /\ categories' = [categories EXCEPT ![w][name].emojiCount = CountOf(w, name)]
         /\ categoryRows' = [categoryRows EXCEPT ![name] =
                                [live |-> TRUE, emoji_count |-> CountOf(w, name),
                                 copies |-> IF @.live THEN @.copies ELSE 1]]
    ELSE UNCHANGED <<categories, categoryRows>>

\* emoji.category as a function holding the object reads it: the entry of
\* _emojiStorage while it is there, otherwise the value the object had
CategoryNow(w, e, last) ==
    IF emojiStorage[w][e].present THEN emojiStorage[w][e].category ELSE last

\* an entry check that always finds the image
HasEntryAlways(w, e) == TRUE

\* const emoji = this._emojiStorage[id]; if (emoji)
HasEntry(w, e) == emojiStorage[w][e].present

\* updateEmojiInfo when the image is in _emojiStorage: the entry is changed
\* and the row upserted; otherwise the code goes straight on to the cache
\* upsert
PUpdate(w, t) ==
    /\ run[w][t].pc = "update"
    /\ LET e == tasks[t].emoji_id
           old == emojiStorage[w][e].category
           new == Or(ResultCategory(tasks[t].image_hash), old)
       IN IF HasEntry(w, e)
          THEN /\ emojiStorage' = [emojiStorage EXCEPT ![w][e].ai = TRUE,
                                                       ![w][e].category = new]
               /\ emojiRows' = [emojiRows EXCEPT ![e].live = TRUE, ![e].ai = TRUE,
                                                 ![e].category = new]
               /\ run' = [run EXCEPT ![w][t] =
                             [@ EXCEPT !.pc = IF new # old THEN "countOld" ELSE "cache",
                                       !.old = old, !.new = new]]
               /\ UNCHANGED aiResults
          ELSE /\ aiResults' = IF tasks[t].image_hash # 0
                               THEN CacheUpsert(aiResults, tasks[t].image_hash)
                               ELSE aiResults
               /\ run' = [run EXCEPT ![w][t].pc = "succeed"]
               /\ UNCHANGED <<emojiStorage, emojiRows>>
    /\ UNCHANGED <<now, config, tasks, idCounter, catv, loopv, flags,
                   localActiveCount, processingSet, opsv, hist, merge, upload>>

\* updateEmojiInfo, category changed: updateCategoryEmojiCount(oldCategory)
PCountOld(w, t) ==
    /\ run[w][t].pc = "countOld"
    /\ updateCategoryEmojiCount(w, run[w][t].old)
    /\ run' = [run EXCEPT ![w][t].pc = "countNew"]
    /\ UNCHANGED <<now, config, store, emojiStorage, files, loopv, flags,
                   localActiveCount, processingSet, opsv, hist, merge, upload>>

\* updateEmojiInfo, category changed: updateCategoryEmojiCount(emoji.category)
PCountNew(w, t) ==
    /\ run[w][t].pc = "countNew"
    /\ updateCategoryEmojiCount(w,
           CategoryNow(w, tasks[t].emoji_id, run[w][t].new))
    /\ run' = [run EXCEPT ![w][t].pc = "cache"]
    /\ UNCHANGED <<now, config, store, emojiStorage, files, loopv, flags,
                   localActiveCount, processingSet, opsv, hist, merge, upload>>

\* database.upsert('emojiluna_ai_results', ...) when task.image_hash is set
PCache(w, t) ==
    /\ run[w][t].pc = "cache"
    /\ aiResults' = IF tasks[t].image_hash # 0
                    THEN CacheUpsert(aiResults, tasks[t].image_hash)
                    ELSE aiResults
    /\ run' = [run EXCEPT ![w][t].pc = "succeed"]
    /\ UNCHANGED <<now, config, tasks, emojiRows, idCounter, emojiStorage, loopv,
                   flags, localActiveCount, processingSet, opsv, hist, catv,
                   merge, upload>>

\* database.set(id, {status: SUCCEEDED}), then the finally block
PSucceed(w, t) ==
    /\ run[w][t].pc = "succeed"
    /\ tasks' = [tasks EXCEPT ![t].status = SUCCEEDED]
    /\ Finish(w, t)
    /\ UNCHANGED <<now, config, aiResults, emojiRows, idCounter, emojiStorage,
                   loopv, flags, opsv, hist, catv, merge, upload>>

\* ------------------------------------------------------- operator calls
setAiPaused(w, paused) ==
    /\ lpc[w] # "off"
    /\ aiPaused[w] # paused
    /\ aiPaused' = [aiPaused EXCEPT ![w] = paused]
    /\ pausedEnq' = [pausedEnq EXCEPT ![w] = {}]
    /\ UNCHANGED <<now, config, store, emojiStorage, loopv, runtimeConfig,
                   workv, opsv, claimed, claimCount, visionCalls, polled, crashes, wasStuck,
                   isDisposed, atDispose, catv, merge, upload>>

\* the arguments setRuntimeConfig is called with: each field given or not
RuntimeFields == {"concurrency", "batchDelay"}

RuntimeInputs ==
    {c \in UNION {[D -> {-1, 0, MaxOverride}] : D \in SUBSET RuntimeFields} :
        /\ "concurrency" \in DOMAIN c => c["concurrency"] \in {0, MaxOverride}
        /\ "batchDelay" \in DOMAIN c => c["batchDelay"] \in {-1, 0}}

\* setRuntimeConfig(config): each field that is not undefined is stored
setRuntimeConfig(w, c) ==
    /\ runtimeConfig' = [runtimeConfig EXCEPT ![w] =
          [concurrency |-> IF "concurrency" \in DOMAIN c
                           THEN c["concurrency"] ELSE @.concurrency,
           batchDelay |-> IF "batchDelay" \in DOMAIN c
                          THEN c["batchDelay"] ELSE @.batchDelay,
           given |-> DOMAIN c]]
    /\ UNCHANGED <<now, config, store, emojiStorage, loopv, aiPaused, isDisposed,
                   workv, opsv, hist, catv, merge, upload>>

\* retryFailedTasks: the query for FAILED rows
RetryRead(w) ==
    /\ lpc[w] # "off"
    /\ retryList[w].pc = "idle"
    /\ Rows(FAILED) # {}
    /\ LET failedTasks == SetToSeq(Rows(FAILED))
       IN retryList' = [retryList EXCEPT ![w] =
                           [pc |-> "set", list |-> failedTasks,
                            failedTasks |-> failedTasks,
                            pendingBefore |-> Cardinality(Rows(PENDING))]]
    /\ UNCHANGED <<now, config, store, emojiStorage, loopv, flags, workv,
                   rean, add, hist, catv, del, merge, upload>>

\* a retry write that leaves the attempts as they are
RetryRowKeepAttempts(row, t) ==
    [row EXCEPT !.status = PENDING, !.next_retry_at = t, !.failed_at = 0]

\* the row retryFailedTasks writes
RetryRow(row, t) ==
    [row EXCEPT !.status = PENDING, !.attempts = 0, !.next_retry_at = t,
                !.failed_at = 0]

\* retryFailedTasks: one iteration of the loop over the rows it read
RetrySet(w) ==
    /\ retryList[w].pc = "set"
    /\ LET t == Head(retryList[w].list)
       IN /\ tasks' = [tasks EXCEPT ![t] = RetryRow(tasks[t], now)]
          /\ claimed' = [claimed EXCEPT ![t] = {}]
          /\ claimCount' = [claimCount EXCEPT ![t] = 0]
    /\ retryList' = [retryList EXCEPT ![w] =
                        IF Len(retryList[w].list) = 1
                        THEN NoRetry
                        ELSE [@ EXCEPT !.list = Tail(@)]]
    /\ UNCHANGED <<now, config, aiResults, emojiRows, idCounter, emojiStorage,
                   loopv, flags, workv, rean, add, visionCalls, polled, pausedEnq, crashes, wasStuck,
                   atDispose, catv, del, merge, upload>>

\* a freshly created task row
NewTask(emoji, hash, t) ==
    [emoji_id |-> emoji, image_hash |-> hash, status |-> PENDING, attempts |-> 0,
     next_retry_at |-> 0, last_error |-> "", created_at |-> t, failed_at |-> 0]

\* database.create('emojiluna_ai_tasks', ...) by process w
CreateTask(w, emoji, hash) ==
    /\ Len(tasks) < MaxTasks
    /\ tasks' = Append(tasks, NewTask(emoji, hash, now))
    /\ pausedEnq' = [pausedEnq EXCEPT ![w] =
                        IF aiPaused[w] THEN @ \cup {Len(tasks) + 1} ELSE @]

\* rows of one image with the given status
TasksOf(emoji, status) ==
    {t \in DOMAIN tasks : tasks[t].emoji_id = emoji /\ tasks[t].status = status}

\* reanalyzeBatch([id]): the image is known; query its PENDING rows
ReanCheckPending(w, id) ==
    /\ lpc[w] # "off"
    /\ rean[w].pc = "idle"
    /\ Len(tasks) < MaxTasks
    /\ emojiStorage[w][id].present
    /\ TasksOf(id, PENDING) = {}
    /\ rean' = [rean EXCEPT ![w] =
                   [pc |-> "processing", id |-> id,
                    open |-> TasksOf(id, PROCESSING) # {}]]
    /\ UNCHANGED <<now, config, store, emojiStorage, loopv, flags, workv,
                   retryList, add, hist, catv, del, merge, upload>>

\* reanalyzeBatch: query its PROCESSING rows; any row found skips the id
ReanCheckProcessing(w) ==
    /\ rean[w].pc = "processing"
    /\ rean' = [rean EXCEPT ![w] =
                   IF TasksOf(rean[w].id, PROCESSING) = {}
                   THEN [@ EXCEPT !.pc = "read"]
                   ELSE NoRean]
    /\ UNCHANGED <<now, config, store, emojiStorage, loopv, flags, workv,
                   retryList, add, hist, catv, del, merge, upload>>

\* reanalyzeBatch: fs.readFile(emoji.path); when the file is gone the call
\* throws out of reanalyzeBatch
ReanRead(w) ==
    /\ rean[w].pc = "read"
    /\ rean' = [rean EXCEPT ![w] =
                   IF rean[w].id \in files THEN [@ EXCEPT !.pc = "create"]
                   ELSE NoRean]
    /\ UNCHANGED <<now, config, store, emojiStorage, loopv, flags, workv,
                   retryList, add, hist, catv, del, merge, upload>>

\* reanalyzeBatch: create the PENDING row
ReanCreate(w) ==
    /\ rean[w].pc = "create"
    /\ CreateTask(w, rean[w].id, emojiRows[rean[w].id].image_hash)
    /\ rean' = [rean EXCEPT ![w] = NoRean]
    /\ UNCHANGED <<now, config, aiResults, emojiRows, idCounter, emojiStorage,
                   loopv, flags, workv, retryList, add,
                   claimed, claimCount, visionCalls, polled, crashes, wasStuck,
                   atDispose, catv, del, merge, upload>>

\* ----------------------------------------------------------------- addEmoji
\* a duplicate lookup that finds nothing
ExistingNone(hash) == {}

\* the duplicate lookup: a live row with this image_hash
Existing(hash) == {e \in EmojiIds : emojiRows[e].live /\ emojiRows[e].image_hash = hash}

\* the category an applied AI result gives a new image: result.category,
\* else options.category, else the default
MergedCategory(hash, category) == Or(ResultCategory(hash), Or(category, DefaultCategory))

\* addEmoji(options, imageData, aiAnalysis) in call slot k: randomUUID, mkdir
\* of the storage directory, the hash, and the duplicate lookup, which throws
\* when a row with the hash exists.  config.autoCategorize is off.
AddDupCheck(w, k, buffer, aiAnalysis, category) ==
    /\ lpc[w] # "off"
    /\ add[w][k].pc = "idle"
    /\ idCounter < MaxEmojis
    /\ idCounter' = idCounter + 1
    /\ add' = [add EXCEPT ![w][k] =
                  IF Existing(calculateFileHash(buffer)) # {} THEN NoCall
                  ELSE [pc |-> "write",
                        kind |-> "buffer",
                        id |-> idCounter + 1,
                        hash |-> calculateFileHash(buffer),
                        aiAnalysis |-> aiAnalysis,
                        ai |-> FALSE,
                        category |-> category,
                        failed |-> FALSE,
                        old |-> ""]]
    /\ UNCHANGED <<now, config, tasks, aiResults, emojiRows, emojiStorage, catv,
                   loopv, flags, workv, retryList, rean, del, hist, merge, upload>>

\* fs.writeFile(filePath, imageData)
AddWrite(w, k) ==
    /\ add[w][k].pc = "write"
    /\ files' = files \cup {add[w][k].id}
    /\ add' = [add EXCEPT ![w][k].pc =
                  IF add[w][k].aiAnalysis /\ config.persistAiTasks THEN "cache"
                  ELSE IF add[w][k].aiAnalysis THEN "analyze" ELSE "row"]
    /\ UNCHANGED <<now, config, store, emojiStorage, categories, categoryRows,
                   loopv, flags, workv, retryList, rean, del, hist, merge, upload>>

\* the cache lookup of addEmoji: a hit merges the cached result into the
\* options, a miss goes on to create the task
AddCacheGet(w, k) ==
    /\ add[w][k].pc = "cache"
    /\ add[w][k].kind = "buffer"
    /\ add' = [add EXCEPT ![w][k] =
                  IF add[w][k].hash \in aiResults
                  THEN [@ EXCEPT !.pc = "row", !.ai = TRUE,
                                 !.category = MergedCategory(add[w][k].hash, @)]
                  ELSE [@ EXCEPT !.pc = "task"]]
    /\ UNCHANGED <<now, config, store, emojiStorage, catv, loopv, flags, workv,
                   retryList, rean, del, hist, merge, upload>>

\* the cache miss: create the PENDING row
AddCreateTask(w, k) ==
    /\ add[w][k].pc = "task"
    /\ CreateTask(w, add[w][k].id, add[w][k].hash)
    /\ add' = [add EXCEPT ![w][k].pc = "row"]
    /\ UNCHANGED <<now, config, aiResults, emojiRows, idCounter, emojiStorage,
                   catv, loopv, flags, workv, retryList, rean, del,
                   claimed, claimCount, visionCalls, polled, crashes, wasStuck,
                   atDispose, merge, upload>>

\* persistence off: analyzeEmoji inline; a null result throws, after the file
\* was written
AddAnalyze(w, k) ==
    /\ add[w][k].pc = "analyze"
    /\ \/ /\ ~isDisposed[w]
          /\ add' = [add EXCEPT ![w][k] =
                        [@ EXCEPT !.pc = "row", !.ai = TRUE,
                                  !.category = MergedCategory(add[w][k].hash, @)]]
       \/ add' = [add EXCEPT ![w][k] = NoCall]
    /\ UNCHANGED <<now, config, store, emojiStorage, catv, loopv, flags, workv,
                   retryList, rean, del, hist, merge, upload>>

\* _emojiStorage[id] = emoji; database.upsert('emojiluna_emojis', ...)
AddRow(w, k) ==
    /\ add[w][k].pc = "row"
    /\ LET c == Or(add[w][k].category, DefaultCategory)
       IN /\ emojiStorage' = [emojiStorage EXCEPT ![w][add[w][k].id] =
                  [present |-> TRUE, ai |-> add[w][k].ai, category |-> c]]
          /\ emojiRows' = [emojiRows EXCEPT ![add[w][k].id] =
                  [live |-> TRUE, image_hash |-> add[w][k].hash,
                   ai |-> add[w][k].ai, category |-> c]]
          /\ add' = [add EXCEPT ![w][k].pc = "count", ![w][k].category = c]
    /\ UNCHANGED <<now, config, tasks, aiResults, idCounter, catv, loopv, flags,
                   workv, retryList, rean, del, hist, merge, upload>>

\* updateCategoryEmojiCount(emoji.category), then the call returns the image;
\* addEmojis then hands the image to runAiAnalysisInBackground
AddCount(w, k) ==
    /\ add[w][k].pc = "count"
    /\ updateCategoryEmojiCount(w,
           CategoryNow(w, add[w][k].id, add[w][k].category))
    /\ add' = [add EXCEPT ![w][k] =
                  IF add[w][k].kind = "batch"
                  THEN [@ EXCEPT !.pc = "background"]
                  ELSE NoCall]
    /\ UNCHANGED <<now, config, store, emojiStorage, files, loopv, flags, workv,
                   retryList, rean, del, hist, merge, upload>>

\* ---------------------------------------------------------- addEmojiFromPath
\* addEmojiFromPath(options, sourcePath, aiAnalysis) in call slot k: the
\* caller has put the upload at sourcePath; randomUUID and fs.readFile
FromPathRead(w, k, buffer, aiAnalysis, category) ==
    /\ lpc[w] # "off"
    /\ add[w][k].pc = "idle"
    /\ idCounter < MaxEmojis
    /\ idCounter' = idCounter + 1
    /\ files' = files \cup {SourcePath(k)}
    /\ add' = [add EXCEPT ![w][k] =
                  [pc |-> "dup",
                   kind |-> "path",
                   id |-> idCounter + 1,
                   hash |-> calculateFileHash(buffer),
                   aiAnalysis |-> aiAnalysis,
                   ai |-> FALSE,
                   category |-> category,
                   failed |-> FALSE,
                        old |-> ""]]
    /\ UNCHANGED <<now, config, tasks, aiResults, emojiRows, emojiStorage,
                   categories, categoryRows, loopv, flags, workv, retryList,
                   rean, del, hist, merge, upload>>

\* the duplicate lookup of addEmojiFromPath
FromPathDupCheck(w, k) ==
    /\ add[w][k].pc = "dup"
    /\ add' = [add EXCEPT ![w][k].pc =
                  IF Existing(add[w][k].hash) # {} THEN "unlink" ELSE "rename"]
    /\ UNCHANGED <<now, config, store, emojiStorage, catv, loopv, flags, workv,
                   retryList, rean, del, hist, merge, upload>>

\* a duplicate: fs.unlink(sourcePath), then the duplicate error is thrown
FromPathUnlink(w, k) ==
    /\ add[w][k].pc = "unlink"
    /\ files' = files \ {SourcePath(k)}
    /\ add' = [add EXCEPT ![w][k] = NoCall]
    /\ UNCHANGED <<now, config, store, emojiStorage, categories, categoryRows,
                   loopv, flags, workv, retryList, rean, del, hist, merge, upload>>

\* mkdir of the storage directory and fs.rename(sourcePath, destPath)
FromPathRename(w, k) ==
    /\ add[w][k].pc = "rename"
    /\ files' = (files \ {SourcePath(k)}) \cup {add[w][k].id}
    /\ add' = [add EXCEPT ![w][k].pc =
                  IF add[w][k].aiAnalysis THEN "cache" ELSE "row"]
    /\ UNCHANGED <<now, config, store, emojiStorage, categories, categoryRows,
                   loopv, flags, workv, retryList, rean, del, hist, merge, upload>>

\* the cache lookup of addEmojiFromPath: a hit merges the cached result into
\* the options; a miss creates the task only when persistAiTasks is on
FromPathCacheGet(w, k) ==
    /\ add[w][k].pc = "cache"
    /\ add[w][k].kind = "path"
    /\ add' = [add EXCEPT ![w][k] =
                  IF add[w][k].hash \in aiResults
                  THEN [@ EXCEPT !.pc = "row", !.ai = TRUE,
                                 !.category = MergedCategory(add[w][k].hash, @)]
                  ELSE IF config.persistAiTasks THEN [@ EXCEPT !.pc = "task"]
                  ELSE [@ EXCEPT !.pc = "row"]]
    /\ UNCHANGED <<now, config, store, emojiStorage, catv, loopv, flags, workv,
                   retryList, rean, del, hist, merge, upload>>

\* ---------------------------------------------------------------- deleteEmoji
\* deleteEmoji(id) for an image in _emojiStorage: fs.unlink(emoji.path).  When
\* the file is gone unlink throws and the call returns false with nothing
\* changed.
DeleteUnlink(w, id) ==
    /\ lpc[w] # "off"
    /\ del[w].pc = "idle"
    /\ emojiStorage[w][id].present
    /\ id \in files
    /\ files' = files \ {id}
    /\ del' = [del EXCEPT ![w] = [pc |-> "remove", id |-> id,
                                  category |-> emojiStorage[w][id].category]]
    /\ UNCHANGED <<now, config, store, emojiStorage, categories, categoryRows,
                   loopv, flags, workv, retryList, rean, add, hist, merge, upload>>

\* a deleteEmoji that also fails the open tasks of the image
TasksAfterDeleteFailing(id) ==
    [t \in DOMAIN tasks |->
        IF tasks[t].emoji_id = id /\ tasks[t].status \in {PENDING, PROCESSING}
        THEN [tasks[t] EXCEPT !.status = FAILED]
        ELSE tasks[t]]

\* the task table after deleteEmoji(id): the call makes no write to it
TasksAfterDelete(id) == tasks

\* delete this._emojiStorage[id]; database.remove('emojiluna_emojis', {id})
DeleteRemove(w) ==
    /\ del[w].pc = "remove"
    /\ del' = [del EXCEPT ![w].pc = "count",
                          ![w].category = CategoryNow(w, del[w].id, @)]
    /\ emojiStorage' = [emojiStorage EXCEPT ![w][del[w].id] = NoEmoji]
    /\ emojiRows' = [emojiRows EXCEPT ![del[w].id] = NoRow]
    /\ tasks' = TasksAfterDelete(del[w].id)
    /\ UNCHANGED <<now, config, aiResults, idCounter, catv, loopv, flags,
                   workv, retryList, rean, add, hist, merge, upload>>

\* updateCategoryEmojiCount(emoji.category), then the call returns true
DeleteCount(w) ==
    /\ del[w].pc = "count"
    /\ updateCategoryEmojiCount(w, del[w].category)
    /\ del' = [del EXCEPT ![w] = NoDelete]
    /\ UNCHANGED <<now, config, store, emojiStorage, files, loopv, flags, workv,
                   retryList, rean, add, hist, merge, upload>>

\* ------------------------------------------------------------- categories
\* updateEmojiCategory(id, category): the entry and the row get the category;
\* no count is recomputed
updateEmojiCategory(w, id, category) ==
    /\ lpc[w] # "off"
    /\ emojiStorage[w][id].present
    /\ emojiStorage[w][id].category # category
    /\ emojiStorage' = [emojiStorage EXCEPT ![w][id].category = category]
    /\ emojiRows' = [emojiRows EXCEPT ![id].live = TRUE, ![id].category = category]
    /\ UNCHANGED <<now, config, tasks, aiResults, idCounter, catv, loopv, flags,
                   workv, opsv, hist, merge, upload>>

\* addCategory(name): a category object with a new id and emojiCount 0 is
\* put into _categories and upserted by id, whether or not the name is
\* there already.  The tables are kept by name: `copies` is the number of
\* categories with the name, and the counts are those of the first of them
\* (the one find() returns).
addCategory(w, name) ==
    /\ lpc[w] # "off"
    /\ categories[w][name].copies < MaxCopies
    /\ categoryRows[name].copies < MaxCopies
    /\ categories' = [categories EXCEPT ![w][name] =
                         [present |-> TRUE,
                          emojiCount |-> IF @.present THEN @.emojiCount ELSE 0,
                          copies |-> @.copies + 1]]
    /\ categoryRows' = [categoryRows EXCEPT ![name] =
                           [live |-> TRUE,
                            emoji_count |-> IF @.live THEN @.emoji_count ELSE 0,
                            copies |-> @.copies + 1]]
    /\ UNCHANGED <<now, config, store, emojiStorage, files, loopv, flags, workv,
                   opsv, hist, merge, upload>>

\* the process dies and the host restarts it: the fields of the instance are
\* those of a new EmojiLunaService, the tables stay as they are
Crash(w) ==
    /\ crashes < MaxCrashes
    /\ lpc[w] # "off"
    /\ crashes' = crashes + 1
    /\ lpc' = [lpc EXCEPT ![w] = "off"]
    /\ stuck' = [stuck EXCEPT ![w] = <<>>]
    /\ fetched' = [fetched EXCEPT ![w] = <<>>]
    /\ aiTaskLoopRunning' = [aiTaskLoopRunning EXCEPT ![w] = FALSE]
    /\ aiPaused' = [aiPaused EXCEPT ![w] = FALSE]
    /\ runtimeConfig' = [runtimeConfig EXCEPT ![w] = NoRuntimeConfig]
    /\ isDisposed' = [isDisposed EXCEPT ![w] = FALSE]
    /\ atDispose' = [atDispose EXCEPT ![w] = {}]
    /\ localActiveCount' = [localActiveCount EXCEPT ![w] = 0]
    /\ processingSet' = [processingSet EXCEPT ![w] = {}]
    /\ run' = [run EXCEPT ![w] = [t \in TaskIds |-> Idle]]
    /\ emojiStorage' = [emojiStorage EXCEPT ![w] = [e \in EmojiIds |-> NoEmoji]]
    /\ categories' = [categories EXCEPT ![w] = [c \in CategoryNames |-> NoCategory]]
    /\ retryList' = [retryList EXCEPT ![w] = NoRetry]
    /\ rean' = [rean EXCEPT ![w] = NoRean]
    /\ add' = [add EXCEPT ![w] = [k \in Calls |-> NoCall]]
    /\ del' = [del EXCEPT ![w] = NoDelete]
    /\ visionCalls' = [visionCalls EXCEPT ![w] = {}]
    /\ polled' = [polled EXCEPT ![w] = FALSE]
    /\ pausedEnq' = [pausedEnq EXCEPT ![w] = {}]
    /\ wasStuck' = [wasStuck EXCEPT ![w] = {}]
    /\ UNCHANGED <<now, config, store, files, categoryRows, claimed, claimCount,
                   merge, upload>>

\* ------------------------------------------------------------------- Next
Worker(w) ==
    \/ Ready(w)
    \/ StartAiTaskProcessor(w)
    \/ ResetStuck(w)
    \/ LoopPoll(w)
    \/ LoopBreak(w)
    \/ ClaimRead(w)
    \/ ClaimSet(w)
    \/ \E t \in TaskIds :
          PMark(w, t) \/ PRead(w, t) \/ PAnalyze(w, t) \/ PUpdate(w, t)
              \/ PCountOld(w, t) \/ PCountNew(w, t)
              \/ PCache(w, t) \/ PSucceed(w, t)

Operator(w) ==
    \/ \E b \in BOOLEAN : setAiPaused(w, b)
    \/ RetryRead(w)
    \/ RetrySet(w)
    \/ \E id \in EmojiIds : ReanCheckPending(w, id)
    \/ ReanCheckProcessing(w)
    \/ ReanRead(w)
    \/ ReanCreate(w)

\* the steps of an addEmoji call after its duplicate lookup, and the steps
\* it shares with addEmojiFromPath
Ingest(w, k) ==
    \/ AddWrite(w, k)
    \/ AddCacheGet(w, k)
    \/ AddCreateTask(w, k)
    \/ AddAnalyze(w, k)
    \/ AddRow(w, k)
    \/ AddCount(w, k)

\* the steps of an addEmojiFromPath call of its own
FromPath(w, k) ==
    \/ FromPathDupCheck(w, k)
    \/ FromPathUnlink(w, k)
    \/ FromPathRename(w, k)
    \/ FromPathCacheGet(w, k)

\* the steps of a deleteEmoji call after its unlink
Delete(w) ==
    \/ DeleteRemove(w)
    \/ DeleteCount(w)

\* one service instance
Next ==
    \/ Tick
    \/ Worker(1)
    \/ Operator(1)
    \/ \E b \in Buffers, ai \in BOOLEAN : AddDupCheck(1, 1, b, ai, "")
    \/ Ingest(1, 1)

Spec == Init /\ [][Next]_vars

\* one service instance that may crash and be restarted
NextCrash == Next \/ Crash(1)

SpecCrash == Init /\ [][NextCrash]_vars

\* two service instances on the same database; instance 1 takes the ingest
\* calls, both run the worker
NextMulti ==
    \/ \E w \in Procs : Worker(w)
    \/ idCounter < MaxSharedEmojis /\ \E b \in Buffers : AddDupCheck(1, 1, b, TRUE, "")
    \/ Ingest(1, 1)

SpecMulti == Init /\ [][NextMulti]_vars

\* the host disposes the plugin
Stop(w) ==
    \/ Dispose(w)
    \/ LoopExit(w)

\* one service instance that is disposed at some point: the worker, ingest
\* calls that enqueue work, the pause switch and the dispose event
NextStop ==
    \/ Worker(1)
    \/ Stop(1)
    \/ \E b \in BOOLEAN : setAiPaused(1, b)
    \/ \E b \in Buffers : AddDupCheck(1, 1, b, TRUE, "")
    \/ Ingest(1, 1)

SpecStop == Init /\ [][NextStop]_vars

\* time passes while a retry is scheduled and not yet due
Wait ==
    /\ \E t \in DOMAIN tasks :
          tasks[t].status = PENDING /\ tasks[t].next_retry_at > now
    /\ now' = now + 1
    /\ UNCHANGED <<config, store, emojiStorage, catv, loopv, flags, workv, opsv,
                   hist, merge, upload>>

\* one service instance with its worker and the catalog calls that add and
\* remove images, one call of each kind at a time, every ingest asking for
\* enrichment
NextCatalog ==
    \/ Wait
    \/ Worker(1)
    \/ \E b \in Buffers :
          AddDupCheck(1, 1, b, TRUE, "") \/ FromPathRead(1, 1, b, TRUE, "")
    \/ Ingest(1, 1)
    \/ FromPath(1, 1)
    \/ \E id \in EmojiIds : DeleteUnlink(1, id)
    \/ Delete(1)

SpecCatalog == Init /\ [][NextCatalog]_vars

\* the category options a caller passes: none, or a name that is not
\* configured
UserCategories == {"", "cute"}

\* one service instance and the calls that decide category counts: ingest
\* without enrichment, deleteEmoji, updateEmojiCategory and addCategory
NextCategory ==
    \/ Ready(1)
    \/ \E b \in Buffers, c \in UserCategories :
          AddDupCheck(1, 1, b, FALSE, c) \/ FromPathRead(1, 1, b, FALSE, c)
    \/ AddWrite(1, 1) \/ AddRow(1, 1) \/ AddCount(1, 1)
    \/ FromPathDupCheck(1, 1) \/ FromPathUnlink(1, 1) \/ FromPathRename(1, 1)
    \/ \E id \in EmojiIds : DeleteUnlink(1, id)
    \/ Delete(1)
    \/ \E id \in EmojiIds, c \in CategoryNames : updateEmojiCategory(1, id, c)
    \/ \E c \in CategoryNames : ~categories[1][c].present /\ addCategory(1, c)

SpecCategory == Init /\ [][NextCategory]_vars

\* one service instance with two ingest calls in progress at a time, as in a
\* batch of addEmojis, and deleteEmoji; the worker is not scheduled
NextIngest ==
    \/ Ready(1)
    \/ \E k \in Calls, b \in Buffers, ai \in BOOLEAN :
          AddDupCheck(1, k, b, ai, "") \/ FromPathRead(1, k, b, ai, "")
    \/ \E k \in Calls : Ingest(1, k) \/ FromPath(1, k)
    \/ \E id \in EmojiIds : DeleteUnlink(1, id)
    \/ Delete(1)

SpecIngest == Init /\ [][NextIngest]_vars

\* the steps of the worker loop of process w, from the ready event on
LoopSteps(w) ==
    \/ Ready(w)
    \/ StartAiTaskProcessor(w)
    \/ ResetStuck(w)
    \/ LoopPoll(w)
    \/ LoopBreak(w)
    \/ ClaimRead(w)
    \/ ClaimSet(w)

\* the steps of processAiTask for task t in process w
TaskSteps(w, t) ==
    \/ PMark(w, t)
    \/ PRead(w, t)
    \/ PAnalyze(w, t)
    \/ PUpdate(w, t)
    \/ PCountOld(w, t)
    \/ PCountNew(w, t)
    \/ PCache(w, t)
    \/ PSucceed(w, t)

\* one service instance, never paused or disposed, with ingest calls that
\* enqueue work
NextLive ==
    \/ Wait
    \/ Worker(1)
    \/ \E b \in Buffers : AddDupCheck(1, 1, b, TRUE, "")
    \/ Ingest(1, 1)

\* the event loop resumes every function whose awaited call has returned:
\* the worker loop and each processAiTask invocation keep taking steps, and
\* the time a retry waits for does pass
SpecLive ==
    /\ Init
    /\ [][NextLive]_vars
    /\ WF_vars(Wait)
    /\ WF_vars(LoopSteps(1))
    /\ \A t \in TaskIds : WF_vars(TaskSteps(1, t))

\* one service instance, never paused or disposed, with addEmoji calls that
\* enqueue work for the image of buffer 2 and deleteEmoji calls
NextDelete ==
    \/ Wait
    \/ Worker(1)
    \/ AddDupCheck(1, 1, 2, TRUE, "")
    \/ Ingest(1, 1)
    \/ \E id \in EmojiIds : DeleteUnlink(1, id)
    \/ Delete(1)

\* the event loop also resumes deleteEmoji; nothing obliges a caller to begin
\* a call
SpecDelete ==
    /\ Init
    /\ [][NextDelete]_vars
    /\ WF_vars(Wait)
    /\ WF_vars(LoopSteps(1))
    /\ WF_vars(Delete(1))
    /\ \A t \in TaskIds : WF_vars(TaskSteps(1, t))

\* ------------------------------------------------------------- addEmojis
\* addEmojis(emojis, aiAnalysis = true), one entry of the batch in call slot
\* k: addEmoji(createOptions, buffer, false) with the category defaulted,
\* up to the duplicate lookup
AddsDupCheck(w, k, buffer) ==
    /\ lpc[w] # "off"
    /\ add[w][k].pc = "idle"
    /\ idCounter < MaxEmojis
    /\ idCounter' = idCounter + 1
    /\ add' = [add EXCEPT ![w][k] =
                  IF Existing(calculateFileHash(buffer)) # {} THEN NoCall
                  ELSE [NoCall EXCEPT !.pc = "write",
                                      !.kind = "batch",
                                      !.id = idCounter + 1,
                                      !.hash = calculateFileHash(buffer),
                                      !.category = DefaultCategory]]
    /\ UNCHANGED <<now, config, tasks, aiResults, emojiRows, emojiStorage, catv,
                   loopv, flags, workv, retryList, rean, del, hist, merge, upload>>

\* runAiAnalysisInBackground: analyzeEmoji for the image, whatever
\* persistAiTasks, _aiPaused and the concurrency are; a null result or a
\* throw ends the work on this image
BgAnalyze(w, k) ==
    /\ add[w][k].pc = "background"
    /\ \/ /\ ~isDisposed[w]
          /\ add' = [add EXCEPT ![w][k].pc = "bgUpdate"]
       \/ add' = [add EXCEPT ![w][k] = NoCall]
    /\ UNCHANGED <<now, config, store, emojiStorage, catv, loopv, flags, workv,
                   retryList, rean, del, hist, merge, upload>>

\* runAiAnalysisInBackground: updateEmojiInfo(task.id, ...) with
\* aiResult.category || task.fallbackCategory
BgUpdate(w, k) ==
    /\ add[w][k].pc = "bgUpdate"
    /\ LET e == add[w][k].id
           old == emojiStorage[w][e].category
           new == Or(ResultCategory(add[w][k].hash), add[w][k].category)
       IN IF HasEntry(w, e)
          THEN /\ emojiStorage' = [emojiStorage EXCEPT ![w][e].ai = TRUE,
                                                       ![w][e].category = new]
               /\ emojiRows' = [emojiRows EXCEPT ![e].live = TRUE, ![e].ai = TRUE,
                                                 ![e].category = new]
               /\ add' = [add EXCEPT ![w][k] =
                             IF new # old
                             THEN [@ EXCEPT !.pc = "bgCountOld", !.old = old,
                                            !.category = new]
                             ELSE NoCall]
          ELSE /\ add' = [add EXCEPT ![w][k] = NoCall]
               /\ UNCHANGED <<emojiStorage, emojiRows>>
    /\ UNCHANGED <<now, config, tasks, aiResults, idCounter, catv, loopv, flags,
                   workv, retryList, rean, del, hist, merge, upload>>

\* updateEmojiInfo, category changed: updateCategoryEmojiCount(oldCategory)
BgCountOld(w, k) ==
    /\ add[w][k].pc = "bgCountOld"
    /\ updateCategoryEmojiCount(w, add[w][k].old)
    /\ add' = [add EXCEPT ![w][k].pc = "bgCountNew"]
    /\ UNCHANGED <<now, config, store, emojiStorage, files, loopv, flags, workv,
                   retryList, rean, del, hist, merge, upload>>

\* updateEmojiInfo, category changed: updateCategoryEmojiCount(emoji.category)
BgCountNew(w, k) ==
    /\ add[w][k].pc = "bgCountNew"
    /\ updateCategoryEmojiCount(w,
           CategoryNow(w, add[w][k].id, add[w][k].category))
    /\ add' = [add EXCEPT ![w][k] = NoCall]
    /\ UNCHANGED <<now, config, store, emojiStorage, files, loopv, flags, workv,
                   retryList, rean, del, hist, merge, upload>>

\* the steps of runAiAnalysisInBackground for one image
Background(w, k) ==
    \/ BgAnalyze(w, k)
    \/ BgUpdate(w, k)
    \/ BgCountOld(w, k)
    \/ BgCountNew(w, k)

\* one service instance with its worker, which an operator may pause, and
\* the three ingest operations asking for enrichment
NextBatch ==
    \/ Worker(1)
    \/ \E p \in BOOLEAN : setAiPaused(1, p)
    \/ \E b \in Buffers :
          \/ AddDupCheck(1, 1, b, TRUE, "")
          \/ FromPathRead(1, 1, b, TRUE, "")
          \/ AddsDupCheck(1, 1, b)
    \/ Ingest(1, 1)
    \/ FromPath(1, 1)
    \/ Background(1, 1)

SpecBatch == Init /\ [][NextBatch]_vars

\* ------------------------------------------------------- category names
\* one service instance whose users add categories and ingest images
\* without enrichment
NextNames ==
    \/ Ready(1)
    \/ \E c \in CategoryNames : addCategory(1, c)
    \/ \E b \in Buffers, c \in UserCategories : AddDupCheck(1, 1, b, FALSE, c)
    \/ AddWrite(1, 1) \/ AddRow(1, 1) \/ AddCount(1, 1)

SpecNames == Init /\ [][NextNames]_vars

\* ------------------------------------------------------ runtime settings
\* one service instance whose operator changes the runtime settings while
\* the worker runs
NextRuntime ==
    \/ Worker(1)
    \/ \E c \in RuntimeInputs : setRuntimeConfig(1, c)
    \/ \E b \in Buffers : AddDupCheck(1, 1, b, TRUE, "")
    \/ Ingest(1, 1)

SpecRuntime == Init /\ [][NextRuntime]_vars

\* two service instances on the same database, instance 1 with the
\* concurrency raised at run time
NextPool ==
    \/ \E w \in Procs : Worker(w)
    \/ /\ runtimeConfig[1] = NoRuntimeConfig
       /\ setRuntimeConfig(1, [f \in {"concurrency"} |-> MaxOverride])
    \/ idCounter < MaxSharedEmojis /\ \E b \in Buffers : AddDupCheck(1, 1, b, TRUE, "")
    \/ Ingest(1, 1)

SpecPool == Init /\ [][NextPool]_vars

\* ------------------------------------------- failing storage operations
\* addEmoji when the duplicate lookup throws an error of the database: the
\* catch logs a warning and the call goes on to write the file
AddDupCheckFail(w, k, buffer, aiAnalysis, category) ==
    /\ lpc[w] # "off"
    /\ add[w][k].pc = "idle"
    /\ idCounter < MaxEmojis
    /\ idCounter' = idCounter + 1
    /\ add' = [add EXCEPT ![w][k] =
                  [pc |-> "write",
                   kind |-> "buffer",
                   id |-> idCounter + 1,
                   hash |-> calculateFileHash(buffer),
                   aiAnalysis |-> aiAnalysis,
                   ai |-> FALSE,
                   category |-> category,
                   failed |-> TRUE,
                        old |-> ""]]
    /\ UNCHANGED <<now, config, tasks, aiResults, emojiRows, emojiStorage, catv,
                   loopv, flags, workv, retryList, rean, del, hist, merge, upload>>

\* fs.writeFile throws: the error leaves addEmoji, nothing was stored
AddWriteFail(w, k) ==
    /\ add[w][k].pc = "write"
    /\ add' = [add EXCEPT ![w][k] = NoCall]
    /\ UNCHANGED <<now, config, store, emojiStorage, catv, loopv, flags, workv,
                   retryList, rean, del, hist, merge, upload>>

\* the upsert of the image row throws: the error leaves the call; the entry
\* of _emojiStorage was set before the upsert and the file is in place
AddRowFail(w, k) ==
    /\ add[w][k].pc = "row"
    /\ emojiStorage' = [emojiStorage EXCEPT ![w][add[w][k].id] =
           [present |-> TRUE, ai |-> add[w][k].ai,
            category |-> Or(add[w][k].category, DefaultCategory)]]
    /\ add' = [add EXCEPT ![w][k] = NoCall]
    /\ UNCHANGED <<now, config, store, catv, loopv, flags, workv, retryList,
                   rean, del, hist, merge, upload>>

\* the upsert of updateCategoryEmojiCount throws: the error leaves the call
\* after the image was stored; the in-memory count was already set
AddCountFail(w, k) ==
    /\ add[w][k].pc = "count"
    /\ LET name == CategoryNow(w, add[w][k].id, add[w][k].category)
       IN categories' = IF categories[w][name].present
                        THEN [categories EXCEPT ![w][name].emojiCount = CountOf(w, name)]
                        ELSE categories
    /\ add' = [add EXCEPT ![w][k] = NoCall]
    /\ UNCHANGED <<now, config, store, emojiStorage, files, categoryRows, loopv,
                   flags, workv, retryList, rean, del, hist, merge, upload>>

\* addEmojiFromPath when the duplicate lookup throws an error of the
\* database: the catch logs a warning and the call goes on to move the file
FromPathDupCheckFail(w, k) ==
    /\ add[w][k].pc = "dup"
    /\ add' = [add EXCEPT ![w][k].pc = "rename", ![w][k].failed = TRUE]
    /\ UNCHANGED <<now, config, store, emojiStorage, catv, loopv, flags, workv,
                   retryList, rean, del, hist, merge, upload>>

\* mkdir or fs.rename throws (not EXDEV): the error leaves the call, the
\* upload stays where it was
FromPathRenameFail(w, k) ==
    /\ add[w][k].pc = "rename"
    /\ add' = [add EXCEPT ![w][k] = NoCall]
    /\ UNCHANGED <<now, config, store, emojiStorage, catv, loopv, flags, workv,
                   retryList, rean, del, hist, merge, upload>>

\* deleteEmoji when database.remove throws: the file is unlinked and the
\* entry of _emojiStorage deleted already; the catch logs and returns false
DeleteRemoveFail(w) ==
    /\ del[w].pc = "remove"
    /\ emojiStorage' = [emojiStorage EXCEPT ![w][del[w].id] = NoEmoji]
    /\ del' = [del EXCEPT ![w] = NoDelete]
    /\ UNCHANGED <<now, config, store, catv, loopv, flags, workv, retryList,
                   rean, add, hist, merge, upload>>

\* deleteEmoji when the upsert of updateCategoryEmojiCount throws: the catch
\* logs and returns false although the image is removed
DeleteCountFail(w) ==
    /\ del[w].pc = "count"
    /\ categories' = IF categories[w][del[w].category].present
                     THEN [categories EXCEPT ![w][del[w].category].emojiCount =
                              CountOf(w, del[w].category)]
                     ELSE categories
    /\ del' = [del EXCEPT ![w] = NoDelete]
    /\ UNCHANGED <<now, config, store, emojiStorage, files, categoryRows, loopv,
                   flags, workv, retryList, rean, add, hist, merge, upload>>

\* one service instance whose storage operations may fail: ingest without
\* enrichment and deleteEmoji
NextFault ==
    \/ Ready(1)
    \/ \E b \in Buffers :
          \/ AddDupCheck(1, 1, b, FALSE, "")
          \/ AddDupCheckFail(1, 1, b, FALSE, "")
          \/ FromPathRead(1, 1, b, FALSE, "")
    \/ AddWrite(1, 1) \/ AddWriteFail(1, 1)
    \/ AddRow(1, 1) \/ AddRowFail(1, 1)
    \/ AddCount(1, 1) \/ AddCountFail(1, 1)
    \/ FromPathDupCheck(1, 1) \/ FromPathDupCheckFail(1, 1)
    \/ FromPathUnlink(1, 1)
    \/ FromPathRename(1, 1) \/ FromPathRenameFail(1, 1)
    \/ \E id \in EmojiIds : DeleteUnlink(1, id)
    \/ DeleteRemove(1) \/ DeleteRemoveFail(1)
    \/ DeleteCount(1) \/ DeleteCountFail(1)

SpecFault == Init /\ [][NextFault]_vars

\* deleteEmoji(id) for an id that _emojiStorage does not have: the call is
\* about to return false
DeleteUnknown(w, id) ==
    /\ lpc[w] # "off"
    /\ del[w].pc = "idle"
    /\ ~emojiStorage[w][id].present
    /\ del' = [del EXCEPT ![w] = [pc |-> "false", id |-> id, category |-> ""]]
    /\ UNCHANGED <<now, config, store, emojiStorage, catv, loopv, flags, workv,
                   retryList, rean, add, hist, merge, upload>>

\* deleteEmoji(id) when fs.unlink throws (the file is missing, or the file
\* system refuses): the catch logs and the call is about to return false
DeleteUnlinkFail(w, id) ==
    /\ lpc[w] # "off"
    /\ del[w].pc = "idle"
    /\ emojiStorage[w][id].present
    /\ del' = [del EXCEPT ![w] = [pc |-> "false", id |-> id,
                                  category |-> emojiStorage[w][id].category]]
    /\ UNCHANGED <<now, config, store, emojiStorage, catv, loopv, flags, workv,
                   retryList, rean, add, hist, merge, upload>>

\* return false
DeleteReturnFalse(w) ==
    /\ del[w].pc = "false"
    /\ del' = [del EXCEPT ![w] = NoDelete]
    /\ UNCHANGED <<now, config, store, emojiStorage, catv, loopv, flags, workv,
                   retryList, rean, add, hist, merge, upload>>

\* one service instance with its worker, ingest with enrichment, and
\* deleteEmoji calls of every outcome but a failing database write
NextRemove ==
    \/ NextDelete
    \/ \E id \in EmojiIds : DeleteUnknown(1, id) \/ DeleteUnlinkFail(1, id)
    \/ DeleteReturnFalse(1)

SpecRemove == Init /\ [][NextRemove]_vars

\* getAiTaskStats on a task table: the four count queries
getAiTaskStats(table) ==
    [s \in AI_TASK_STATUS |->
        Cardinality({t \in DOMAIN table : table[t].status = s})]

\* one service instance whose retryFailedTasks call runs with nothing else
\* writing the task table until it returns; only time passes meanwhile
NextRetry ==
    \/ Tick
    \/ RetryRead(1)
    \/ RetrySet(1)
    \/ /\ retryList[1].pc = "idle"
       /\ \/ Worker(1)
          \/ \E b \in Buffers : AddDupCheck(1, 1, b, TRUE, "")
          \/ Ingest(1, 1)

SpecRetry == Init /\ [][NextRetry]_vars

\* ------------------------------------------------- the merge of an AI result
\* the tags of the modelled inputs
Tags == {"a", "b"}

\* [...new Set(tags)]: duplicates removed, first occurrences kept in order
RECURSIVE NewSetFrom(_, _)
NewSetFrom(s, seen) ==
    IF s = <<>> THEN <<>>
    ELSE IF Head(s) \in seen THEN NewSetFrom(Tail(s), seen)
    ELSE <<Head(s)>> \o NewSetFrom(Tail(s), seen \cup {Head(s)})

\* a [...new Set(tags)] that keeps every element
NewSetKeepAll(s) == s

NewSet(s) == NewSetFrom(s, {})

\* the image an ingest call stores on a cache hit.  The merge runs inside a
\* try block: spreading result.tags throws when the parsed result has no
\* tags, the catch logs, and the options stay as the caller gave them.
MergeAtIngest(options, result) ==
    LET finalOptions ==
            IF result.hasTags
            THEN [name |-> Or(result.name, options.name),
                  category |-> Or(result.category,
                                  Or(options.category, DefaultCategory)),
                  tags |-> NewSet(options.tags \o result.tags)]
            ELSE options
    IN [name |-> finalOptions.name,
        category |-> Or(finalOptions.category, DefaultCategory),
        tags |-> finalOptions.tags]

\* the image after the worker's success path: updateEmojiInfo is given
\* result.name || emoji.name, result.category || emoji.category and the set
\* of emoji.tags followed by result.tags || []
MergeAtWorker(emoji, result) ==
    [name |-> Or(result.name, emoji.name),
     category |-> Or(result.category, emoji.category),
     tags |-> NewSet(emoji.tags \o (IF result.hasTags THEN result.tags ELSE <<>>))]

\* the inputs of a merge: what the user gave the image, and a parsed result
\* of the vision client, which is the JSON the model answered with, unchecked
MergeInputs ==
    [options : [name : {"cat"}, category : {"", "cute"}, tags : SeqOf(Tags, MaxTags)],
     result : [name : {"", "kitty"}, category : {"", "funny"},
               hasTags : BOOLEAN, tags : SeqOf(Tags, MaxTags)],
     ingest : {<<>>},
     worker : {<<>>},
     again : {<<>>},
     cache : {{}}]

InitMerge ==
    /\ InitService
    /\ upload = NoUpload
    /\ merge \in {m \in MergeInputs : ~m.result.hasTags => m.result.tags = <<>>}

\* the cache-hit path of ingest applies the result
ApplyAtIngest ==
    /\ merge.ingest = <<>>
    /\ merge' = [merge EXCEPT !.ingest = <<MergeAtIngest(merge.options, merge.result)>>]
    /\ UNCHANGED <<now, config, store, emojiStorage, catv, loopv, flags, workv,
                   opsv, hist, upload>>

\* the worker's success path applies the result
ApplyAtWorker ==
    /\ merge.worker = <<>>
    /\ merge' = [merge EXCEPT !.worker = <<MergeAtWorker(merge.options, merge.result)>>]
    /\ UNCHANGED <<now, config, store, emojiStorage, catv, loopv, flags, workv,
                   opsv, hist, upload>>

\* the worker's success path goes on to the upsert of the cache row
CacheAtWorker ==
    /\ merge.worker # <<>>
    /\ merge.cache = {}
    /\ merge.again = <<>>
    /\ merge' = [merge EXCEPT !.cache = CacheUpsert(@, calculateFileHash(1))]
    /\ UNCHANGED <<now, config, store, emojiStorage, catv, loopv, flags, workv,
                   opsv, hist, upload>>

\* the process died after the image update, before or after the cache
\* write; the startup reset made the task PENDING again, loadEmojis read the
\* updated image back, and the worker's success path runs once more with
\* the same result
ReapplyAtWorker ==
    /\ merge.worker # <<>>
    /\ merge.again = <<>>
    /\ merge' = [merge EXCEPT
                    !.again = <<MergeAtWorker(merge.worker[1], merge.result)>>,
                    !.cache = CacheUpsert(@, calculateFileHash(1))]
    /\ UNCHANGED <<now, config, store, emojiStorage, catv, loopv, flags, workv,
                   opsv, hist, upload>>

NextMerge == ApplyAtIngest \/ ApplyAtWorker \/ CacheAtWorker \/ ReapplyAtWorker

SpecMerge == InitMerge /\ [][NextMerge]_vars

\* ------------------------------------------------- the browser upload worker
\* processNext up to the await of fetch: take the next index, count the
\* request as active and issue it
processNext(u) ==
    IF u.index >= u.length
    THEN u
    ELSE [u EXCEPT !.index = @ + 1,
                   !.active = @ + 1,
                   !.inFlight = @ \cup {u.index},
                   !.requests[u.index] = @ + 1]

\* the starting loop of onmessage: k calls of processNext
RECURSIVE StartUploads(_, _)
StartUploads(u, k) == IF k = 0 THEN u ELSE StartUploads(processNext(u), k - 1)

\* the finally block of processNext
UploadFinally(u) ==
    LET v == [u EXCEPT !.active = @ - 1]
    IN IF v.index < v.length
       THEN processNext(v)
       ELSE IF v.active = 0
            THEN [v EXCEPT !.done = @ + 1, !.reported = v.errors]
            ELSE v

\* the messages submitFile can post: a list of files and a concurrency
UploadInputs ==
    {[NoUpload EXCEPT !.length = n, !.concurrency = c] :
        n \in 0..MaxFiles, c \in 1..MaxUploadConcurrency}

InitUpload ==
    /\ InitService
    /\ merge = NoMerge
    /\ upload \in UploadInputs

\* self.onmessage: the locals are set up and the loop starts the first
\* uploads
onmessage ==
    /\ ~upload.received
    /\ upload' = StartUploads([upload EXCEPT !.received = TRUE],
                              Min(upload.concurrency, upload.length))
    /\ UNCHANGED <<now, config, store, emojiStorage, catv, loopv, flags, workv,
                   opsv, hist, merge>>

\* the fetch of file i settles: a response that is ok posts a progress
\* message, any other response or a rejection is pushed to errors; the
\* finally block then starts the next upload or posts 'done'
UploadSettles(i, ok) ==
    /\ i \in upload.inFlight
    /\ LET u == [upload EXCEPT !.inFlight = @ \ {i}]
           v == IF ok
                THEN [u EXCEPT !.completed = @ + 1, !.progress = @ + 1]
                ELSE [u EXCEPT !.errors = @ + 1]
       IN upload' = UploadFinally(v)
    /\ UNCHANGED <<now, config, store, emojiStorage, catv, loopv, flags, workv,
                   opsv, hist, merge>>

NextUpload ==
    \/ onmessage
    \/ \E i \in 0..(MaxFiles - 1) : UploadSettles(i, TRUE)
    \/ \E i \in 0..(MaxFiles - 1) : UploadSettles(i, FALSE)

\* the browser delivers the message to the worker, and every fetch settles,
\* with a response or with a rejection
SpecUpload ==
    /\ InitUpload
    /\ [][NextUpload]_vars
    /\ WF_vars(onmessage)
    /\ \A i \in 0..(MaxFiles - 1) : WF_vars(\E ok \in BOOLEAN : UploadSettles(i, ok))

\* ----------------------------------------------------------------- claims
InFlight(w) == {t \in TaskIds : run[w][t].pc # "idle"}

\* C1: when two workers call tryAtomicClaim on the same PENDING row, exactly
\* one call returns true, so at most one process holds a successful claim on a
\* row since it was last PENDING, and the other dispatches nothing.
C1_OneClaimWins == \A t \in TaskIds : Cardinality(claimed[t]) <= 1

\* C2: every image id has at most one task row whose status is PENDING or
\* PROCESSING.
C2_OneOpenTaskPerEmoji ==
    \A e \in EmojiIds :
        Cardinality(TasksOf(e, PENDING) \cup TasksOf(e, PROCESSING)) <= 1

\* C3: at any time at most one worker, over all processes that share the task
\* table, is running processAiTask for a given task id.
C3_OneWorkerPerTask ==
    \A t \in TaskIds : Cardinality({w \in Procs : t \in InFlight(w)}) <= 1

\* C4: a SUCCEEDED row never changes status again, and a FAILED row changes
\* status only in a step of retryFailedTasks, to PENDING with attempts 0.
C4_TerminalStays ==
    [][\A t \in DOMAIN tasks :
          /\ tasks[t].status = SUCCEEDED => tasks'[t].status = SUCCEEDED
          /\ (tasks[t].status = FAILED /\ tasks'[t].status # FAILED) =>
                /\ \E w \in Procs :
                      retryList[w].pc = "set" /\ Head(retryList[w].list) = t
                /\ tasks'[t].status = PENDING
                /\ tasks'[t].attempts = 0]_vars

\* C5: from the end of the startup reset until the loop's first poll there is
\* no PROCESSING row, every row the startup query returned is PENDING, and
\* the worker has issued no vision-client call.
C5_ResetBeforeFirstPoll ==
    \A w \in Procs :
        ~polled[w] =>
            /\ visionCalls[w] = {}
            /\ lpc[w] = "loop" =>
                  /\ Rows(PROCESSING) = {}
                  /\ \A t \in wasStuck[w] : tasks[t].status = PENDING

\* a row that was PROCESSING when the worker started has been reset, claimed
\* and processed to SUCCEEDED by the restarted worker
C5_Witness ==
    \E t \in wasStuck[1] :
        /\ t \in DOMAIN tasks
        /\ tasks[t].status = SUCCEEDED
        /\ t \in visionCalls[1]

\* C6: every SUCCEEDED task has a cache row whose hash is its image_hash.
C6_SucceededHasCache ==
    \A t \in DOMAIN tasks :
        tasks[t].status = SUCCEEDED => tasks[t].image_hash \in aiResults

C6_Witness == \E t \in DOMAIN tasks : tasks[t].status = SUCCEEDED

C8_ClaimsPerAttempt ==
    \A t \in DOMAIN tasks :
        /\ tasks[t].attempts <= config.aiMaxAttempts
        /\ tasks[t].status = FAILED => tasks[t].attempts = config.aiMaxAttempts
        /\ (\A w \in Procs : t \notin wasStuck[w]) =>
              /\ tasks[t].status = FAILED => claimCount[t] = config.aiMaxAttempts
              /\ tasks[t].status = PENDING => claimCount[t] = tasks[t].attempts
              /\ tasks[t].status = PROCESSING =>
                    claimCount[t] = tasks[t].attempts + 1

\* a row enqueued in this run, never reset, has failed twice and is FAILED
C8_Witness ==
    \E t \in DOMAIN tasks :
        /\ t \notin wasStuck[1]
        /\ config.aiMaxAttempts = 2
        /\ tasks[t].status = FAILED
        /\ claimCount[t] = 2

\* C9: while the worker is paused, every task enqueued since the pause began
\* is PENDING, is not being processed, and has had no vision-client call.
C9_PausedStayPending ==
    \A w \in Procs :
        aiPaused[w] =>
            \A t \in pausedEnq[w] :
                /\ tasks[t].status = PENDING
                /\ t \notin InFlight(w)
                /\ t \notin visionCalls[w]

\* the loop is running and has polled before, the worker is paused, and all
\* the rows of the table were enqueued during this pause
C9_Witness ==
    /\ aiPaused[1]
    /\ polled[1]
    /\ lpc[1] = "loop"
    /\ Cardinality(pausedEnq[1]) = MaxTasks
    /\ Cardinality(Rows(PENDING)) = MaxTasks
    /\ Rows(PROCESSING) = {}

\* C10: the number of tasks a process has in flight, and its active count,
\* never exceed the effective concurrency.
C10_WithinConcurrency ==
    \A w \in Procs :
        /\ Cardinality(InFlight(w)) <= Concurrency(w)
        /\ localActiveCount[w] <= Concurrency(w)

\* the loop stopped claiming with fetched rows left because it is at capacity
C10_Witness ==
    /\ lpc[1] = "claim"
    /\ fetched[1] # <<>>
    /\ Cardinality(InFlight(1)) = Concurrency(1)
    /\ tasks[Head(fetched[1]).id].status = PENDING

\* what C11 says besides the end of claiming: STOPPED is terminal, a disposed
\* loop at its loop check can only exit, and once the loop has exited and
\* nothing is in flight no row is left PROCESSING
C11_Stopped(w) ==
    /\ lpc[w] = "stopped" => lpc'[w] = "stopped"
    /\ (isDisposed[w] /\ lpc[w] = "loop") => lpc'[w] \in {"loop", "stopped"}
    /\ (lpc'[w] = "stopped" /\ \A t \in TaskIds : run'[w][t].pc = "idle") =>
          \A t \in DOMAIN tasks' : tasks'[t].status # PROCESSING

\* C11 as stated: after dispose no task is claimed (no tryAtomicClaim call
\* returns true), the loop exits at its next check and stays stopped, and the
\* tasks in flight finish with SUCCEEDED, PENDING or FAILED.
C11_NoClaimAfterDispose ==
    [][\A w \in Procs :
          /\ isDisposed[w] => ~(lpc[w] = "claimSet" /\ lpc'[w] = "claim")
          /\ C11_Stopped(w)]_vars

\* C11, amended: after dispose the loop starts no further tryAtomicClaim call
\* (a call that was awaiting its read when the dispose event fired still
\* completes and its task is processed), the loop exits at its next check
\* and stays stopped whatever setAiPaused does, and once the tasks in flight
\* have finished no row is PROCESSING.
C11_NoClaimStartedAfterDispose ==
    [][\A w \in Procs :
          /\ isDisposed[w] => ~(lpc[w] = "claim" /\ lpc'[w] = "claimSet")
          /\ C11_Stopped(w)]_vars

\* the loop has stopped and a task that was in flight at the dispose event
\* has run to SUCCEEDED
C11_Witness ==
    /\ isDisposed[1]
    /\ lpc[1] = "stopped"
    /\ \E t \in atDispose[1] :
          run[1][t].pc = "idle" /\ tasks[t].status = SUCCEEDED

C13_UniqueImageHash ==
    \A e1, e2 \in EmojiIds :
        (emojiRows[e1].live /\ emojiRows[e2].live
            /\ emojiRows[e1].image_hash = emojiRows[e2].image_hash) => e1 = e2

\* a live image row holds these bytes
C14_Stored(hash) ==
    \E e \in EmojiIds : emojiRows[e].live /\ emojiRows[e].image_hash = hash

\* the tables and the in-memory catalog are as they were
C14_CatalogSame ==
    UNCHANGED <<tasks, aiResults, emojiRows, emojiStorage, categories, categoryRows>>

C16_Merge(user, ai) ==
    [name |-> IF ai.name # "" THEN ai.name ELSE user.name,
     category |-> IF ai.category # "" THEN ai.category
                  ELSE IF user.category # "" THEN user.category
                  ELSE DefaultCategory,
     tags |-> NewSet(user.tags \o ai.tags)]

\* C16: the cache-hit path of ingest and the worker's success path produce
\* the same merge for the same inputs, and it is the described one: the AI
\* name if it is not empty, else the user's; the AI category, else the
\* user's, else the default; the user's tags followed by the AI tags without
\* duplicates.
C16_SameMerge ==
    (merge.ingest # <<>> /\ merge.worker # <<>>) =>
        /\ merge.ingest = merge.worker
        /\ merge.ingest[1] = C16_Merge(merge.options, merge.result)

\* C17: whenever no catalog call is in progress, the emoji_count of every
\* category row equals the number of live image rows whose category is the
\* name of that category.
C17_CountsMatchImages ==
    (\A w \in Procs :
        /\ del[w].pc = "idle"
        /\ \A k \in Calls : add[w][k].pc = "idle"
        /\ \A t \in TaskIds : run[w][t].pc = "idle") =>
    \A c \in CategoryNames :
        categoryRows[c].live =>
            categoryRows[c].emoji_count =
                Cardinality({e \in EmojiIds :
                    emojiRows[e].live /\ emojiRows[e].category = c})

\* the image id was handed out, no ingest call is working on it, and it has
\* no row: its ingest was rejected or deleteEmoji has removed it
C18_Gone(e) ==
    /\ e <= idCounter
    /\ ~emojiRows[e].live
    /\ \A w \in Procs, k \in Calls : add[w][k].id # e

\* the update step of processAiTask for task t of process w is taken
C18_UpdateStep(w, t) ==
    /\ t \in DOMAIN tasks
    /\ run[w][t].pc = "update"
    /\ run'[w][t].pc # "update"

\* C18: when deleteEmoji removes an image while the worker processes its
\* task, the update step of that task changes no image, entry or count, no
\* row or in-memory entry of the removed id comes back, and the task still
\* ends SUCCEEDED or FAILED.
C18_DeletedDuringProcessing ==
    /\ [][\A w \in Procs :
            /\ \A t \in TaskIds :
                  (C18_UpdateStep(w, t) /\ C18_Gone(tasks[t].emoji_id)) =>
                      UNCHANGED <<emojiRows, emojiStorage, categories, categoryRows>>
            /\ \A e \in EmojiIds :
                  C18_Gone(e) =>
                      (~emojiRows'[e].live /\ ~emojiStorage'[w][e].present)]_vars
    /\ \A t \in TaskIds :
          (/\ config.persistAiTasks
           /\ t \in DOMAIN tasks
           /\ tasks[t].status \in {PENDING, PROCESSING}
           /\ C18_Gone(tasks[t].emoji_id))
             ~> (t \in DOMAIN tasks /\ tasks[t].status \in {SUCCEEDED, FAILED})

\* the worker has read the file and analysed the image, deleteEmoji has
\* removed the image meanwhile, and the update step is next
C18_Witness ==
    \E t \in DOMAIN tasks :
        /\ run[1][t].pc = "update"
        /\ tasks[t].status = PROCESSING
        /\ C18_Gone(tasks[t].emoji_id)
        /\ del[1].pc \in {"count", "idle"}

\* C19: when retryFailedTasks returns from a call during which the worker
\* took no step, every row that was FAILED at its read is PENDING with
\* attempts 0 and a next_retry_at that is not in the future, the returned
\* number is the number of those rows, and a stats call then counts no
\* FAILED row and that many more PENDING rows than before the call.
C19_RetryFailedTasks ==
    [][\A w \in Procs :
          (retryList[w].pc = "set" /\ retryList'[w].pc = "idle") =>
              LET failedTasks == retryList[w].failedTasks
                  returned == Len(failedTasks)
                  stats == getAiTaskStats(tasks')
              IN /\ \A i \in DOMAIN failedTasks :
                       /\ tasks'[failedTasks[i]].status = PENDING
                       /\ tasks'[failedTasks[i]].attempts = 0
                       /\ tasks'[failedTasks[i]].next_retry_at <= now'
                 /\ returned = Cardinality(Range(failedTasks))
                 /\ returned > 0
                 /\ stats[FAILED] = 0
                 /\ stats[PENDING] = retryList[w].pendingBefore + returned]_vars

\* retryFailedTasks has read two FAILED rows, one of which had used up two
\* attempts, has set the first and is about to set the second
C19_Witness ==
    /\ retryList[1].pc = "set"
    /\ Len(retryList[1].failedTasks) = 2
    /\ Len(retryList[1].list) = 1
    /\ tasks[retryList[1].failedTasks[1]].status = PENDING
    /\ tasks[retryList[1].list[1]].status = FAILED
    /\ tasks[retryList[1].list[1]].attempts = 2

\* C20: reanalyzeBatch creates no task row for an image id that had a PENDING
\* or PROCESSING row when it was called.
C20_OpenTaskMeansNoOp ==
    [][\A w \in Procs :
          (rean[w].pc = "create" /\ Len(tasks') > Len(tasks)) => ~rean[w].open]_vars

\* C21: tryAtomicClaim returns true exactly when the call itself changed the
\* row from PENDING to PROCESSING; a call that returns false leaves the task
\* table as it is.
C21_ClaimTrueIffChanged ==
    [][\A w \in Procs :
          /\ (lpc[w] = "claimSet" /\ lpc'[w] = "claim") =>
                LET t == Head(fetched[w]).id
                IN tasks[t].status = PENDING /\ tasks'[t].status = PROCESSING
          /\ (lpc[w] = "claim" /\ lpc'[w] = "claim" /\ fetched'[w] # fetched[w]) =>
                tasks' = tasks]_vars

\* C22: whenever no ingest or delete call is in progress, also after a call
\* in which a filesystem or database operation failed, every live image row
\* has its file in the storage directory.
C22_LiveRowHasFile ==
    (\A w \in Procs :
        del[w].pc = "idle" /\ \A k \in Calls : add[w][k].pc = "idle") =>
    \A e \in EmojiIds : emojiRows[e].live => e \in files

\* C25: an ingest call in which a database or filesystem operation has
\* failed, the duplicate lookup included, ends with the error and does not
\* go on to store an image row.
C25_FailedIngestStoresNothing ==
    [][\A w \in Procs, k \in Calls :
          (add[w][k].pc # "idle" /\ add[w][k].failed) =>
              (add'[w][k].pc # "count" /\ emojiRows' = emojiRows)]_vars

\* C23: while persistAiTasks is on, no step of an ingest operation is a call
\* of the vision client: neither the inline analysis of addEmoji nor the
\* background analysis of addEmojis runs.
C23_IngestNeverAnalyzes ==
    [][config.persistAiTasks =>
          \A w \in Procs, k \in Calls :
              add[w][k].pc \in {"analyze", "background"} => add'[w][k] = add[w][k]]_vars

\* C24: while persistAiTasks is off, no step adds a row to the task table,
\* the worker claims nothing, and an addEmoji or addEmojiFromPath call that
\* asked for enrichment stores its image only with the AI result applied.
C24_PersistenceOff ==
    [][~config.persistAiTasks =>
          /\ DOMAIN tasks' = DOMAIN tasks
          /\ claimCount' = claimCount
          /\ \A w \in Procs, k \in Calls :
                (/\ add[w][k].pc = "row"
                 /\ add'[w][k].pc = "count"
                 /\ add[w][k].aiAnalysis) => emojiRows'[add[w][k].id].ai]_vars

\* C26: when the worker comes to read the image of a claimed task and the
\* file is missing, the task ends as FAILED with last_error set, and neither
\* a vision call nor a cache row is made for it.
C26_MissingFileIsTerminal ==
    [][\A w \in Procs, t \in DOMAIN tasks :
          (/\ run[w][t].pc = "read"
           /\ run'[w][t].pc # "read"
           /\ tasks[t].emoji_id \notin files) =>
              /\ tasks'[t].status = FAILED
              /\ tasks'[t].last_error # ""
              /\ visionCalls' = visionCalls
              /\ aiResults' = aiResults]_vars

\* the processAiTask invocations of instance w that have not reached the
\* end of their finally block
C27_Running(w) == {t \in TaskIds : run[w][t].pc # "idle"}

\* C27: the local active counter of an instance equals the number of its
\* processAiTask invocations in flight and the size of its processing set.
C27_CounterMatchesInFlight ==
    \A w \in Procs :
        /\ localActiveCount[w] = Cardinality(C27_Running(w))
        /\ localActiveCount[w] = Cardinality(processingSet[w])

\* C28: a claim succeeds only on a task that is PENDING and due, so a task
\* whose last failure at time t left it with attempts k < aiMaxAttempts is
\* not claimed before t + aiBackoffBase * 2^(k-1).
C28_NoClaimBeforeBackoff ==
    [][\A w \in Procs :
          (lpc[w] = "claimSet" /\ lpc'[w] = "claim") =>
              LET row == tasks[Head(fetched[w]).id]
              IN /\ row.status = PENDING
                 /\ row.next_retry_at <= now
                 /\ (row.attempts >= 1 /\ row.attempts < config.aiMaxAttempts) =>
                       now >= row.failed_at
                                + config.aiBackoffBase * Pow2(row.attempts - 1)]_vars

\* a task that failed in this run at time 0 has been claimed again
C28_Witness ==
    \E t \in DOMAIN tasks :
        /\ tasks[t].status = PROCESSING
        /\ tasks[t].attempts = 1
        /\ tasks[t].failed_at = 0
        /\ now >= config.aiBackoffBase

\* the rows a poll has fetched whose claim has not been attempted yet, the
\* one being attempted excluded
C29_Waiting(w) == {fetched[w][i].id : i \in 2..Len(fetched[w])}

\* C29: when a claim succeeds, no task fetched in the same poll and still
\* waiting for its claim attempt has a smaller created_at.
C29_ClaimsInCreatedOrder ==
    [][\A w \in Procs :
          (lpc[w] = "claimSet" /\ lpc'[w] = "claim") =>
              \A u \in C29_Waiting(w) :
                  tasks[Head(fetched[w]).id].created_at <= tasks[u].created_at]_vars

\* a poll fetched two tasks created at different times and the older one has
\* been claimed while the younger one waits
C29_Witness ==
    \E w \in Procs :
        /\ lpc[w] = "claim"
        /\ fetched[w] # <<>>
        /\ \E t \in DOMAIN tasks :
              /\ tasks[t].status = PROCESSING
              /\ t \in processingSet[w]
              /\ tasks[t].created_at < tasks[Head(fetched[w]).id].created_at

\* the effective concurrency C30 describes
C30_EffectiveConcurrency(w) ==
    IF runtimeConfig[w].concurrency > 0
    THEN runtimeConfig[w].concurrency
    ELSE config.aiConcurrency

\* the effective batch delay C30 describes
C30_EffectiveDelay(w) ==
    IF runtimeConfig[w].batchDelay >= 0
    THEN runtimeConfig[w].batchDelay
    ELSE config.aiBatchDelay

\* C30: a poll runs with the effective concurrency (the override when it is
\* greater than 0, else aiConcurrency): it needs a free slot and fetches at
\* most twice the free slots; a dispatch is followed by the effective batch
\* delay (the override when it is at least 0, else aiBatchDelay); and
\* setRuntimeConfig changes only the fields it was given.
C30_RuntimeConfig ==
    [][\A w \in Procs :
          /\ (lpc[w] = "loop" /\ lpc'[w] = "claim") =>
                /\ localActiveCount[w] < C30_EffectiveConcurrency(w)
                /\ Len(fetched'[w]) <=
                      (C30_EffectiveConcurrency(w) - localActiveCount[w]) * 2
                /\ \A i \in DOMAIN fetched'[w] :
                      fetched'[w][i].concurrency = C30_EffectiveConcurrency(w)
          /\ (lpc[w] = "claimSet" /\ lpc'[w] = "claim") =>
                \A t \in TaskIds :
                    (run[w][t].pc = "idle" /\ run'[w][t].pc # "idle") =>
                        run'[w][t].delay = C30_EffectiveDelay(w)
          /\ runtimeConfig'[w] # runtimeConfig[w] =>
                /\ \A f \in RuntimeFields \ runtimeConfig'[w].given :
                      runtimeConfig'[w][f] = runtimeConfig[w][f]
                /\ UNCHANGED <<config, aiPaused, isDisposed, localActiveCount,
                               tasks, lpc>>]_vars

\* with the concurrency raised to 2 and the delay set to 0 at run time, two
\* tasks are in flight at once and the one dispatched last was followed by
\* no delay
C30_Witness ==
    /\ runtimeConfig[1].concurrency = 2
    /\ runtimeConfig[1].batchDelay = 0
    /\ localActiveCount[1] = 2
    /\ \E t \in TaskIds : run[1][t].pc # "idle" /\ run[1][t].delay = 0

\* the processAiTask invocations to which analyzeEmoji has returned a result
C31_HasResult(t) == {w \in Procs : run[w][t].pc # "idle" /\ run[w][t].result}

\* C31: a task becomes SUCCEEDED, and a cache row is written for its hash,
\* only by an invocation to which the vision client has returned a result;
\* an analysis that returns nothing is recorded as a failure (attempts + 1,
\* last_error set) and changes neither the cache nor the image.
C31_SuccessNeedsResult ==
    [][/\ \A t \in DOMAIN tasks :
             (tasks[t].status # SUCCEEDED /\ tasks'[t].status = SUCCEEDED) =>
                 C31_HasResult(t) # {}
       /\ \A h \in aiResults' \ aiResults :
             \E t \in DOMAIN tasks :
                 tasks[t].image_hash = h /\ C31_HasResult(t) # {}
       /\ \A w \in Procs, t \in DOMAIN tasks :
             (run[w][t].pc = "analyze" /\ run'[w][t].pc = "idle") =>
                 /\ tasks'[t].attempts = run[w][t].attempts + 1
                 /\ tasks'[t].last_error # ""
                 /\ tasks'[t].status \in {PENDING, FAILED}
                 /\ aiResults' = aiResults
                 /\ emojiRows' = emojiRows
                 /\ emojiStorage' = emojiStorage]_vars

\* a task whose first analysis returned nothing and whose second returned a
\* result
C31_Witness ==
    \E t \in DOMAIN tasks :
        /\ tasks[t].status = SUCCEEDED
        /\ tasks[t].attempts = 1
        /\ tasks[t].failed_at >= 0
        /\ tasks[t].image_hash \in aiResults

\* C32: in one process at most one body of processAiTask runs for a task id
\* at any time, also when the process claims a task it is still processing.
C32_OneBodyPerProcess ==
    \A w \in Procs, t \in TaskIds : run[w][t].bodies <= 1

\* instance 1 has dispatched a task a second time while its first body for
\* the task is still running: two dispatches are counted, one body runs
C32_Witness ==
    \E t \in TaskIds :
        /\ run[1][t].bodies = 1
        /\ processingSet[1] = {t}
        /\ localActiveCount[1] = 2

\* C33: no two categories have the same name, neither in _categories of an
\* instance nor in the table emojiluna_categories.
C33_UniqueCategoryNames ==
    \A c \in CategoryNames :
        /\ categoryRows[c].copies <= 1
        /\ \A w \in Procs : categories[w][c].copies <= 1

\* no ingest, delete or task update of instance w is in progress
C34_Quiet(w) ==
    /\ del[w].pc = "idle"
    /\ \A k \in Calls : add[w][k].pc = "idle"
    /\ \A t \in TaskIds : run[w][t].pc = "idle"

\* C34: whenever a started instance that is not disposed has no catalog
\* operation in progress, also after an operation in which a database write
\* failed, _emojiStorage and the table emojiluna_emojis hold the same image
\* ids with the same fields.
C34_IndexMatchesTable ==
    \A w \in Procs :
        (lpc[w] # "off" /\ ~isDisposed[w] /\ C34_Quiet(w)) =>
            \A e \in EmojiIds :
                /\ emojiStorage[w][e].present = emojiRows[e].live
                /\ emojiStorage[w][e].present =>
                      /\ emojiStorage[w][e].category = emojiRows[e].category
                      /\ emojiStorage[w][e].ai = emojiRows[e].ai

\* C35: no step of deleteEmoji changes the task table or the result cache,
\* and a call that returns false because the id is unknown or the file could
\* not be removed changes neither the image row, the in-memory entry, the
\* file nor the category counts.
C35_DeleteFrame ==
    [][\A w \in Procs :
          del'[w] # del[w] =>
              /\ tasks' = tasks
              /\ aiResults' = aiResults
              /\ ("false" \in {del[w].pc, del'[w].pc}) =>
                    UNCHANGED <<emojiRows, emojiStorage, files, categories,
                                categoryRows>>]_vars

\* a deleteEmoji call is returning false for an image that has a task and a
\* cached result
C35_Witness ==
    /\ del[1].pc = "false"
    /\ emojiStorage[1][del[1].id].present
    /\ \E t \in DOMAIN tasks : tasks[t].emoji_id = del[1].id
    /\ aiResults # {}

\* C36: processing a task again with the same result, after a crash that
\* followed the image update or the cache write, leaves what one
\* uninterrupted run leaves: the same name, category and tag list, no tag
\* twice, and one cache row for the hash.
C36_ReprocessingIsIdempotent ==
    merge.again # <<>> =>
        /\ merge.again[1] = merge.worker[1]
        /\ \A i, j \in DOMAIN merge.again[1].tags :
              merge.again[1].tags[i] = merge.again[1].tags[j] => i = j
        /\ merge.cache = {calculateFileHash(1)}

\* a second run merged a result that brings a name, a category and a tag
\* into an image that already carried them from the first run
C36_Witness ==
    /\ merge.again # <<>>
    /\ merge.result.name # ""
    /\ merge.result.category # ""
    /\ merge.result.hasTags /\ merge.result.tags # <<>>
    /\ merge.options.tags # <<>>

\* C37: a write of the startup reset changes nothing but the status of a row
\* that is PROCESSING, leaves a row that is PENDING, SUCCEEDED or FAILED as
\* it is, leaves every other row alone, and the reset begins only in an
\* instance whose processor was not started before.
C37_ResetFrame ==
    [][\A w \in Procs :
          /\ (lpc[w] = "reset" /\ stuck'[w] # stuck[w]) =>
                LET t == Head(stuck[w])
                IN /\ tasks[t].status = PROCESSING =>
                         tasks'[t] = [tasks[t] EXCEPT !.status = PENDING]
                   /\ tasks[t].status # PROCESSING => tasks'[t] = tasks[t]
                   /\ \A u \in DOMAIN tasks \ {t} : tasks'[u] = tasks[u]
          /\ (lpc[w] # "reset" /\ lpc'[w] = "reset") => ~aiTaskLoopRunning[w]]_vars

\* C38: when a task becomes SUCCEEDED while the row of its image is in the
\* images table, that row holds the merged AI result; also when the service
\* was disposed while the task was in flight.
C38_SucceededImageHasResult ==
    [][\A t \in DOMAIN tasks :
          (tasks[t].status # SUCCEEDED /\ tasks'[t].status = SUCCEEDED) =>
              LET e == tasks[t].emoji_id
              IN emojiRows'[e].live =>
                    /\ emojiRows'[e].ai
                    /\ ResultCategory(tasks[t].image_hash) # "" =>
                          emojiRows'[e].category =
                              ResultCategory(tasks[t].image_hash)]_vars

\* what the worker keeps while it uploads
C39_UploadBounds ==
    /\ \A i \in 0..(MaxFiles - 1) : upload.requests[i] <= 1
    /\ Cardinality(upload.inFlight) <= upload.concurrency
    /\ upload.active <= upload.concurrency
    /\ upload.done <= 1

\* what holds once the worker has reported
C39_UploadDone ==
    /\ upload.done = 1
    /\ upload.progress + upload.reported = upload.length
    /\ \A i \in 0..(MaxFiles - 1) :
          upload.requests[i] = (IF i < upload.length THEN 1 ELSE 0)

====
